---- MODULE Spec2Model ----
(***************************************************************************)
(* The chunk-level checkpoint store of meetings-transcript                 *)
(* (src/checkpoint.py, class CheckpointManager) as a state machine.        *)
(*                                                                         *)
(* The SQLite file at db_path is modelled by its committed content (the    *)
(* files and chunks tables as sets of rows); every CheckpointManager is a  *)
(* handle with its connection, its file_id and, while one of its           *)
(* transactions is open, its uncommitted working copy of the database.     *)
(* SQLite gives the write lock to one connection at a time, makes a        *)
(* COMMIT atomic and drops the uncommitted work of a connection that       *)
(* goes away.  Timestamps (created_at, updated_at, started_at,             *)
(* completed_at) and the jobs table are written by the code and read by    *)
(* no operation: they are left out of the rows.                            *)
(***************************************************************************)
EXTENDS Integers, Sequences, FiniteSets, TLC

\* Bounds of the model.
MaxChunks == 2      \* chunk specs handed to register_chunks: 1..MaxChunks
MaxStores == 2      \* database files ever created at db_path
MaxDone == 2        \* cap of the files.done_chunks counter
ResumeChunks == 3   \* chunk specs in the one-worker-at-a-time runs
MaxClaims == 3      \* claims of a run after which no retryable failure is reported
RunChunks == 2      \* chunks of the source in the runs of the processing loop
AssembleChunks == 3 \* total_chunks of the reassembly runs
MaxFiles == 2       \* files one transcribe command is given
MaxSignals == 2     \* termination signals delivered to one process
MaxDuration == 5    \* longest total duration of the chunk planner, in ticks
MaxChunkSeconds == 2  \* longest chunk length of the chunk planner, in ticks
MaxArtifacts == 2   \* chunk indices whose artifacts are written at system-call level
MaxFaults == 2      \* crashes, interruptions and engine failures over all runs

Handles == {"A", "B"}
Runners == {"A"}
SourceUri == "u1"
Fingerprints == {"f1", "f2"}
Modes == {"resume", "noresume", "reset"}

NULL == <<>>
Abandoned == <<"Chunk abandoned due to interruption">>
AudioMissing(i) == <<"Chunk audio missing for index", i>>

\* Files of chunk_dir and output_path: no file, or a file with its content.
\* A text is a sequence of characters.
Slots == 0..(AssembleChunks - 1)
NoFile == <<>>
File(t) == <<t>>
Whitespace == {" ", "\n"}

\* what the speech of chunk i is, as one character
Words == <<"a", "b", "c", "d", "e">>
Word(i) == Words[i + 1]

\* result.get("text", "") of model.transcribe on chunk i: the engine puts a
\* space before the words it hears and gives "" for silence
RawTexts(i) == {<<" ", Word(i)>>, <<>>}

\* str.strip(): the text without its leading and trailing whitespace
RECURSIVE LStrip(_)
LStrip(t) ==
  IF t # <<>> /\ Head(t) \in Whitespace THEN LStrip(Tail(t)) ELSE t

RECURSIVE RStrip(_)
RStrip(t) ==
  IF t # <<>> /\ t[Len(t)] \in Whitespace
    THEN RStrip(SubSeq(t, 1, Len(t) - 1)) ELSE t

Strip(t) == RStrip(LStrip(t))

\* hashlib.sha256(text.encode("utf-8")).hexdigest()
Sha256(t) == <<"sha256", t>>

\* no call of write_chunk_artifact is running
NotWriting == [at |-> "-", index |-> 0, text |-> <<>>]

\* no call of _finalize_chunk_transcripts is running
NotFinalizing == [at |-> "-", combined |-> <<>>, before |-> NoFile]

VARIABLES
  store,     \* what db_path holds: "absent", "corrupt" or "valid"
  cur,       \* the database file db_path names (index into dbs), 0 if none
  dbs,       \* committed content of every database file created so far
  srcfp,     \* fingerprint of the source file as it is now
  pc,        \* per handle: "closed", "opened", "idle", "claiming", "marking"
  conn,      \* per handle: the database file its connection is on, 0 if none
  file_id,   \* per handle: self.file_id
  tx,        \* per handle: <<>> or <<working copy of its open transaction>>
  ret,       \* per handle: what its last call returned or raised
  how,       \* per handle: how its constructor got its File record
  log,       \* per handle: indices its claims returned since it was opened
  snap,      \* per handle: indices of its file that db_path held as done
             \* when its constructor was called
  dir,       \* chunk_dir: per chunk index, the file chunk_NNNN.txt
  output,    \* the file at output_path
  at,        \* per handle: where its process is in transcribe_audio
  text,      \* per handle: the stripped text of the chunk it transcribed
  result,    \* what the last transcribe_audio returned (its error, or "success")
  called,    \* per handle: chunk indices its run has called the engine on
  order,     \* chunk indices in the order their artifacts were written
  shutdown_requested,  \* ShutdownCoordinator.shutdown_requested
  reason,    \* ShutdownCoordinator.reason
  signals,   \* termination signals delivered to the process so far
  main,      \* where the main thread is in cmd_transcribe
  poller,    \* where the daemon thread is in _poll_imds_loop
  queue,     \* files cmd_transcribe has not started yet
  todo,      \* chunks of the current file no claim has returned yet
  interrupted,  \* the local variable of cmd_transcribe
  late,      \* shutdown had been requested when the last claim returned
  halted,    \* some should_stop() of the run has returned True
  exit_status,  \* exit status of the process, -1 while it runs
  total_duration,  \* what get_audio_duration returned, in ticks
  chunk_seconds,   \* the chunk length, in ticks
  num_chunks,      \* the local variable of split_audio_into_chunks
  extracting,      \* the loop variable i of split_audio_into_chunks
  chunk_paths,     \* the chunk files kept so far, each by the i it was cut at
  chunk_specs,     \* the list of ChunkSpec built from chunk_paths
  planning,        \* where the planner is: "-", "split", "specs", "planned", "failed"
  inflight,        \* chunk indices the engine had been called on, their text
                   \* not yet written, when a shutdown request arrived
  polled,          \* what the last turn of _poll_imds_loop met, "-" before it
  tmp,             \* chunk_dir: per chunk index, the file chunk_NNNN.txt.tmp
  synced,          \* the paths whose file data is on stable storage
  stable,          \* chunk_dir as stable storage has it: per index, chunk_NNNN.txt
  writing,         \* the running call of write_chunk_artifact: its step, index, text
  returned,        \* what the last write_chunk_artifact returned, <<>> if it did not
  finalizing,      \* the running call of _finalize_chunk_transcripts: its step,
                   \* its local variable combined, output_path before the call
  stableout,       \* output_path as stable storage has it
  recorded,        \* final_output_sha256 of the File record, NULL if none
  faults,          \* crashes, interruptions and engine failures so far
  previous         \* how the run before the current one ended, "-" if none

\* the state of the store, of one run of the processing loop, and of one
\* transcribe command with its shutdown coordinator
sto == <<store, cur, dbs, srcfp, pc, conn, file_id, tx, ret>>
hist == <<how, log, snap>>
run == <<dir, output, at, text, result, called, order>>
cmd == <<shutdown_requested, reason, signals, main, poller, queue, todo,
         interrupted, late, halted, exit_status>>
plan == <<total_duration, chunk_seconds, num_chunks, extracting, chunk_paths,
          chunk_specs, planning>>
\* the state of the parts that are checked on their own
fs == <<tmp, synced, stable, writing, returned, finalizing, stableout, recorded>>
extra == <<plan, inflight, polled, fs, faults, previous>>
vars == <<sto, hist, run, cmd, extra>>

----------------------------------------------------------------------------
\* Identifiers and rows

\* file_id = "file_" + sha256(source_uri): one identifier per source URI
FileId(uri) == <<"file", uri>>

\* chunk_id = "chunk_{file_id}_{index}"
ChunkId(fid, i) == <<"chunk", fid, i>>

EmptyDB == [files |-> {}, chunks |-> {}]

\* tests' make_specs: index i, start float(i), end float(i + 1), plan-i
MakeSpecs(n) ==
  [k \in 1..n |-> [index |-> k - 1, start_seconds |-> k - 1,
                   end_seconds |-> k, plan_hash |-> <<"plan", k - 1>>]]

Result(kind) == [kind |-> kind, chunk |-> <<>>]
NoResult == Result("-")

\* the handles, other than h, that hold the write lock of database file g
LockHolders(g, h) == {o \in Handles \ {h} : conn[o] = g /\ tx[o] # <<>>}

\* (mutant) a transaction that starts without taking the write lock
LockNeverTaken(g, h) == TRUE

\* BEGIN IMMEDIATE, or the first write of "with self._conn", gets the write
\* lock only when no other connection holds it
LockFree(g, h) == LockHolders(g, h) = {}

\* the rows of a file's chunks
ChunksOf(db, fid) == {c \in db.chunks : c.file_id = fid}

----------------------------------------------------------------------------
\* The SQL statements, as functions of the database content

\* (mutant) the constructor without its reconciliation step
ReconcileNothing(db, fid) == db

\* UPDATE chunks SET status = 'retryable_failed', last_error = 'Chunk
\* abandoned due to interruption' WHERE file_id = ? AND status = 'running'
ReconcileRunning(db, fid) ==
  [db EXCEPT !.chunks =
     {IF c.file_id = fid /\ c.status = "running"
        THEN [c EXCEPT !.status = "retryable_failed", !.last_error = Abandoned]
        ELSE c : c \in db.chunks}]

\* SELECT file_id FROM files WHERE source_uri = ? AND fingerprint = ?
MatchingFiles(db, uri, fp) ==
  {f \in db.files : f.source_uri = uri /\ f.fingerprint = fp}

\* the branch of _ensure_file_and_job that creates or overwrites the File row
FreshFile(db, uri, fp, total) ==
  LET fid == FileId(uri) IN
  IF \E f \in db.files : f.file_id = fid
    THEN [db EXCEPT !.files =
            {IF f.file_id = fid
               THEN [f EXCEPT !.source_uri = uri, !.fingerprint = fp,
                              !.total_chunks = total]
               ELSE f : f \in db.files}]
    ELSE [db EXCEPT !.files = db.files \cup
            {[file_id |-> fid, source_uri |-> uri, fingerprint |-> fp,
              total_chunks |-> total, done_chunks |-> 0,
              final_output_uri |-> NULL, final_output_sha256 |-> NULL]}]

\* _ensure_file_and_job: the database after it and the handle's file_id
EnsureFileAndJob(db, uri, fp, total, resume) ==
  LET rows == MatchingFiles(db, uri, fp) IN
  IF rows # {} /\ resume
    THEN LET fid == (CHOOSE f \in rows : TRUE).file_id IN
         [db |-> ReconcileRunning(db, fid), file_id |-> fid]
    ELSE [db |-> FreshFile(db, uri, fp, total), file_id |-> FileId(uri)]

\* (mutant) INSERT OR REPLACE: an existing row is overwritten by a pending one
InsertOrReplaceChunk(db, fid, spec) ==
  [db EXCEPT !.chunks =
     {c \in db.chunks : c.chunk_id # ChunkId(fid, spec.index)} \cup
     {[chunk_id |-> ChunkId(fid, spec.index), file_id |-> fid,
       chunk_index |-> spec.index, start_seconds |-> spec.start_seconds,
       end_seconds |-> spec.end_seconds, plan_hash |-> spec.plan_hash,
       status |-> "pending", transcript_uri |-> NULL,
       transcript_sha256 |-> NULL, last_error |-> NULL]}]

\* (mutant) an upsert: an existing row takes the boundaries and the plan
\* hash of the new spec and keeps its status
InsertOrUpdatePlan(db, fid, spec) ==
  IF \E c \in db.chunks : c.chunk_id = ChunkId(fid, spec.index)
    THEN [db EXCEPT !.chunks =
            {IF c.chunk_id = ChunkId(fid, spec.index)
               THEN [c EXCEPT !.start_seconds = spec.start_seconds,
                              !.end_seconds = spec.end_seconds,
                              !.plan_hash = spec.plan_hash]
               ELSE c : c \in db.chunks}]
    ELSE [db EXCEPT !.chunks = db.chunks \cup
            {[chunk_id |-> ChunkId(fid, spec.index), file_id |-> fid,
              chunk_index |-> spec.index, start_seconds |-> spec.start_seconds,
              end_seconds |-> spec.end_seconds, plan_hash |-> spec.plan_hash,
              status |-> "pending", transcript_uri |-> NULL,
              transcript_sha256 |-> NULL, last_error |-> NULL]}]

\* INSERT OR IGNORE INTO chunks(...) VALUES(chunk_id, file_id, index, start,
\* end, plan_hash, 'pending', now): chunk_id is the primary key
InsertOrIgnoreChunk(db, fid, spec) ==
  IF \E c \in db.chunks : c.chunk_id = ChunkId(fid, spec.index)
    THEN db
    ELSE [db EXCEPT !.chunks = db.chunks \cup
            {[chunk_id |-> ChunkId(fid, spec.index), file_id |-> fid,
              chunk_index |-> spec.index, start_seconds |-> spec.start_seconds,
              end_seconds |-> spec.end_seconds, plan_hash |-> spec.plan_hash,
              status |-> "pending", transcript_uri |-> NULL,
              transcript_sha256 |-> NULL, last_error |-> NULL]}]

\* the loop of register_chunks over its specs
RECURSIVE RegisterAll(_, _, _)
RegisterAll(db, fid, specs) ==
  IF specs = <<>> THEN db
  ELSE RegisterAll(InsertOrIgnoreChunk(db, fid, Head(specs)), fid, Tail(specs))

\* WHERE file_id = ? AND status IN ('pending', 'retryable_failed', 'abandoned')
\* (mutant) permanent failures eligible as well
EligibleAlsoPermanent ==
  {"pending", "retryable_failed", "abandoned", "permanent_failed"}

\* (mutant) completed chunks eligible as well
EligibleAlsoDone == {"pending", "retryable_failed", "abandoned", "done"}

\* (mutant) only chunks never claimed are eligible
EligibleOnlyPending == {"pending"}

EligibleStatuses == {"pending", "retryable_failed", "abandoned"}

EligibleRows(db, fid) ==
  {c \in db.chunks : c.file_id = fid /\ c.status \in EligibleStatuses}

\* (mutant) the SELECT without its status filter
SelectAnyStatus(db, fid) ==
  {c \in ChunksOf(db, fid) :
     \A d \in ChunksOf(db, fid) : c.chunk_index <= d.chunk_index}

\* (mutant) ORDER BY chunk_index DESC
SelectHighest(db, fid) ==
  {c \in EligibleRows(db, fid) :
     \A d \in EligibleRows(db, fid) : c.chunk_index >= d.chunk_index}

\* ... ORDER BY chunk_index LIMIT 1: the rows fetchone() may return
SelectNext(db, fid) ==
  {c \in EligibleRows(db, fid) :
     \A d \in EligibleRows(db, fid) : c.chunk_index <= d.chunk_index}

\* UPDATE chunks SET status = 'running', ... WHERE chunk_id = ?
SetRunning(db, cid) ==
  [db EXCEPT !.chunks =
     {IF c.chunk_id = cid THEN [c EXCEPT !.status = "running"] ELSE c
        : c \in db.chunks}]

\* UPDATE chunks SET status = 'done', transcript_uri = ?, transcript_sha256
\* = ?, ... WHERE chunk_id = ?
SetDone(db, cid, uri, sha) ==
  [db EXCEPT !.chunks =
     {IF c.chunk_id = cid
        THEN [c EXCEPT !.status = "done", !.transcript_uri = uri,
                       !.transcript_sha256 = sha]
        ELSE c : c \in db.chunks}]

\* (mutant) mark_chunk_done without its second UPDATE
IncrementNothing(db, fid) == db

\* UPDATE files SET done_chunks = done_chunks + 1, ... WHERE file_id = ?
IncrementDone(db, fid) ==
  [db EXCEPT !.files =
     {IF f.file_id = fid THEN [f EXCEPT !.done_chunks = f.done_chunks + 1]
        ELSE f : f \in db.files}]

\* (mutant) every failure is recorded as retryable
SetFailedRetryable(db, cid, error, permanent) ==
  [db EXCEPT !.chunks =
     {IF c.chunk_id = cid
        THEN [c EXCEPT !.status = "retryable_failed", !.last_error = error]
        ELSE c : c \in db.chunks}]

\* UPDATE chunks SET status = ?, last_error = ?, ... WHERE chunk_id = ?
SetFailed(db, cid, error, permanent) ==
  [db EXCEPT !.chunks =
     {IF c.chunk_id = cid
        THEN [c EXCEPT !.status = IF permanent THEN "permanent_failed"
                                   ELSE "retryable_failed",
                       !.last_error = error]
        ELSE c : c \in db.chunks}]

\* the (index, start, end, plan_hash) tuple claim_next_chunk returns
Descriptor(c) ==
  [kind |-> "chunk",
   chunk |-> <<c.chunk_index, c.start_seconds, c.end_seconds, c.plan_hash>>]

----------------------------------------------------------------------------
\* The operations of CheckpointManager

Pending(db, out) == <<[db |-> db, out |-> out]>>

\* A database file that db_path no longer names and that no connection has
\* open is gone (an unlinked file lives as long as a descriptor is open on it).
Release(d, g, users, current) ==
  IF g # 0 /\ g # current /\ users = {} THEN [d EXCEPT ![g] = EmptyDB] ELSE d

Init ==
  /\ store \in {"absent", "corrupt"}
  /\ cur = 0
  /\ dbs = <<>>
  /\ srcfp = "f1"
  /\ pc = [h \in Handles |-> "closed"]
  /\ conn = [h \in Handles |-> 0]
  /\ file_id = [h \in Handles |-> NULL]
  /\ tx = [h \in Handles |-> <<>>]
  /\ ret = [h \in Handles |-> NoResult]
  /\ how = [h \in Handles |-> "-"]
  /\ log = [h \in Handles |-> <<>>]
  /\ snap = [h \in Handles |-> {}]
  /\ dir = [i \in Slots |-> NoFile]
  /\ output = NoFile
  /\ at = [h \in Handles |-> "-"]
  /\ text = [h \in Handles |-> <<>>]
  /\ result = "-"
  /\ called = [h \in Handles |-> {}]
  /\ order = <<>>
  /\ shutdown_requested = FALSE
  /\ reason = "None"
  /\ signals = 0
  /\ main = "-"
  /\ poller = "-"
  /\ queue = 0
  /\ todo = 0
  /\ interrupted = FALSE
  /\ late = FALSE
  /\ halted = FALSE
  /\ exit_status = -1
  /\ total_duration = 0
  /\ chunk_seconds = 0
  /\ num_chunks = 0
  /\ extracting = 0
  /\ chunk_paths = <<>>
  /\ chunk_specs = <<>>
  /\ planning = "-"
  /\ inflight = {}
  /\ polled = "-"
  /\ tmp = [i \in Slots |-> NoFile]
  /\ synced = {}
  /\ stable = [i \in Slots |-> NoFile]
  /\ writing = NotWriting
  /\ returned = <<>>
  /\ finalizing = NotFinalizing
  /\ stableout = NoFile
  /\ recorded = NULL
  /\ faults = 0
  /\ previous = "-"

\* self.resume = resume and not reset
Resumes(m) == m = "resume"

\* (mutant) the reset argument ignored
ResetIgnored(m, st) == FALSE

\* (mutant) reset unlinks only a file that is a database
ResetOnlyValid(m, st) == m = "reset" /\ st = "valid"

\* if reset and self.db_path.exists(): self.db_path.unlink()
ResetUnlinks(m, st) == m = "reset" /\ st # "absent"

\* CheckpointManager(db_path, source_uri, fingerprint, total_chunks, resume,
\* reset): unlink on reset, connect, PRAGMAs, schema, _ensure_file_and_job.
\* m stands for the arguments (resume, reset): "reset" is reset=True with
\* either value of resume.
Open(h, uri, fp, total, m) ==
  /\ pc[h] = "closed"
  /\ LET resume == Resumes(m)
         unlink == ResetUnlinks(m, store)
         create == unlink \/ store = "absent"
     IN
     \/ \* the file is no database: sqlite3.DatabaseError, no handle
        /\ ~create /\ store = "corrupt"
        /\ ret' = [ret EXCEPT ![h] = Result("corrupt")]
        /\ UNCHANGED <<store, cur, dbs, pc, conn, file_id>>
     \/ \* the write lock is not free within busy_timeout: "database is locked"
        /\ ~create /\ store = "valid" /\ ~LockFree(cur, h)
        /\ ret' = [ret EXCEPT ![h] = Result("locked")]
        /\ UNCHANGED <<store, cur, dbs, pc, conn, file_id>>
     \/ /\ create => Len(dbs) < MaxStores
        /\ ~create => store = "valid" /\ LockFree(cur, h)
        /\ LET g == IF create THEN Len(dbs) + 1 ELSE cur
               old == IF create THEN EmptyDB ELSE dbs[cur]
               e == EnsureFileAndJob(old, uri, fp, total, resume)
               kept == IF unlink /\ store = "valid"
                         THEN Release(dbs, cur, {o \in Handles : conn[o] = cur}, 0)
                         ELSE dbs
           IN /\ dbs' = IF create THEN Append(kept, e.db)
                        ELSE [dbs EXCEPT ![g] = e.db]
              /\ cur' = g
              /\ store' = "valid"
              /\ conn' = [conn EXCEPT ![h] = g]
              /\ file_id' = [file_id EXCEPT ![h] = e.file_id]
              /\ pc' = [pc EXCEPT ![h] = "opened"]
              /\ ret' = [ret EXCEPT ![h] = Result("ok")]
  /\ UNCHANGED <<srcfp, tx>>

\* register_chunks(specs): one transaction, INSERT OR IGNORE per spec
RegisterChunks(h, specs) ==
  /\ pc[h] \in {"opened", "idle"}
  /\ \/ /\ LockFree(conn[h], h)
        /\ dbs' = [dbs EXCEPT ![conn[h]] = RegisterAll(@, file_id[h], specs)]
        /\ pc' = [pc EXCEPT ![h] = "idle"]
        /\ ret' = [ret EXCEPT ![h] = Result("ok")]
     \/ /\ ~LockFree(conn[h], h)
        /\ ret' = [ret EXCEPT ![h] = Result("locked")]
        /\ UNCHANGED <<dbs, pc>>
  /\ UNCHANGED <<store, cur, srcfp, conn, file_id, tx>>

\* claim_next_chunk up to its UPDATE: BEGIN IMMEDIATE, SELECT, UPDATE (or,
\* with no eligible row, return None and COMMIT)
ClaimBegin(h) ==
  /\ pc[h] = "idle"
  /\ LET db == dbs[conn[h]] IN
     \/ /\ LockFree(conn[h], h)
        /\ SelectNext(db, file_id[h]) = {}
        /\ ret' = [ret EXCEPT ![h] = Result("none")]
        /\ UNCHANGED <<pc, tx>>
     \/ /\ LockFree(conn[h], h)
        /\ \E row \in SelectNext(db, file_id[h]) :
             tx' = [tx EXCEPT ![h] =
                      Pending(SetRunning(db, row.chunk_id), Descriptor(row))]
        /\ pc' = [pc EXCEPT ![h] = "claiming"]
        /\ UNCHANGED ret
     \/ /\ ~LockFree(conn[h], h)
        /\ ret' = [ret EXCEPT ![h] = Result("locked")]
        /\ UNCHANGED <<pc, tx>>
  /\ UNCHANGED <<store, cur, dbs, srcfp, conn, file_id>>

\* the COMMIT of _transaction and the return of the row
ClaimCommit(h) ==
  /\ pc[h] = "claiming"
  /\ dbs' = [dbs EXCEPT ![conn[h]] = tx[h][1].db]
  /\ ret' = [ret EXCEPT ![h] = tx[h][1].out]
  /\ tx' = [tx EXCEPT ![h] = <<>>]
  /\ pc' = [pc EXCEPT ![h] = "idle"]
  /\ UNCHANGED <<store, cur, srcfp, conn, file_id>>

\* mark_chunk_done up to its first UPDATE (which takes the write lock)
MarkDoneBegin(h, idx, uri, sha) ==
  /\ pc[h] = "idle"
  /\ \/ /\ LockFree(conn[h], h)
        /\ tx' = [tx EXCEPT ![h] =
                    Pending(SetDone(dbs[conn[h]], ChunkId(file_id[h], idx), uri, sha),
                            Result("ok"))]
        /\ pc' = [pc EXCEPT ![h] = "marking"]
        /\ UNCHANGED ret
     \/ /\ ~LockFree(conn[h], h)
        /\ ret' = [ret EXCEPT ![h] = Result("locked")]
        /\ UNCHANGED <<pc, tx>>
  /\ UNCHANGED <<store, cur, dbs, srcfp, conn, file_id>>

\* the second UPDATE of mark_chunk_done and the commit of "with self._conn"
MarkDoneCommit(h) ==
  /\ pc[h] = "marking"
  /\ dbs' = [dbs EXCEPT ![conn[h]] = IncrementDone(tx[h][1].db, file_id[h])]
  /\ ret' = [ret EXCEPT ![h] = tx[h][1].out]
  /\ tx' = [tx EXCEPT ![h] = <<>>]
  /\ pc' = [pc EXCEPT ![h] = "idle"]
  /\ UNCHANGED <<store, cur, srcfp, conn, file_id>>

\* mark_chunk_failed(chunk_index, error, permanent): one UPDATE, committed
MarkChunkFailed(h, idx, error, permanent) ==
  /\ pc[h] = "idle"
  /\ \/ /\ LockFree(conn[h], h)
        /\ dbs' = [dbs EXCEPT ![conn[h]] =
                     SetFailed(@, ChunkId(file_id[h], idx), error, permanent)]
        /\ ret' = [ret EXCEPT ![h] = Result("ok")]
     \/ /\ ~LockFree(conn[h], h)
        /\ ret' = [ret EXCEPT ![h] = Result("locked")]
        /\ UNCHANGED dbs
  /\ UNCHANGED <<store, cur, srcfp, pc, conn, file_id, tx>>

\* the handle is gone: its connection is closed, its open transaction lost
Drop(h) ==
  /\ dbs' = Release(dbs, conn[h], {o \in Handles \ {h} : conn[o] = conn[h]}, cur)
  /\ pc' = [pc EXCEPT ![h] = "closed"]
  /\ conn' = [conn EXCEPT ![h] = 0]
  /\ file_id' = [file_id EXCEPT ![h] = NULL]
  /\ tx' = [tx EXCEPT ![h] = <<>>]
  /\ ret' = [ret EXCEPT ![h] = NoResult]
  /\ UNCHANGED <<store, cur, srcfp>>

\* close(): wal_checkpoint, commit, close the connection
Close(h) ==
  /\ pc[h] \in {"opened", "idle"}
  /\ Drop(h)

\* the process dies, between two calls or inside one
Crash(h) ==
  /\ pc[h] # "closed"
  /\ Drop(h)

\* the source file is modified between two runs: its fingerprint
\* (path:mtime_ns:size) changes
TouchSource ==
  /\ srcfp = "f1"
  /\ srcfp' = "f2"
  /\ UNCHANGED <<store, cur, dbs, pc, conn, file_id, tx, ret>>

ArtifactUri(i) == <<"chunk_dir/chunk", i>>
Shas == {"sha-a"}
EngineError == <<"engine error">>

----------------------------------------------------------------------------
\* Two workers on one store.  A worker opens the store, registers its chunk
\* specs, then claims a chunk and reports on that chunk, until a claim
\* returns nothing or a call raises; then it closes.  It may die in a call.

DoOpen(h) ==
  /\ \E m \in {"resume", "noresume"} : Open(h, SourceUri, srcfp, MaxChunks, m)
  /\ UNCHANGED hist
  /\ UNCHANGED <<run, cmd, extra>>

DoRegister(h) ==
  /\ ret[h].kind = "ok"
  /\ \E n \in 1..MaxChunks : RegisterChunks(h, MakeSpecs(n))
  /\ UNCHANGED hist
  /\ UNCHANGED <<run, cmd, extra>>

DoClaim(h) ==
  /\ ret[h].kind = "ok"
  /\ ClaimBegin(h)
  /\ UNCHANGED hist
  /\ UNCHANGED <<run, cmd, extra>>

DoClaimCommit(h) == ClaimCommit(h) /\ UNCHANGED hist /\ UNCHANGED <<run, cmd, extra>>

DoMarkDone(h) ==
  /\ ret[h].kind = "chunk"
  /\ \A f \in dbs[conn[h]].files : f.done_chunks < MaxDone
  /\ \E sha \in Shas :
       MarkDoneBegin(h, ret[h].chunk[1], ArtifactUri(ret[h].chunk[1]), sha)
  /\ UNCHANGED hist
  /\ UNCHANGED <<run, cmd, extra>>

DoMarkDoneCommit(h) == MarkDoneCommit(h) /\ UNCHANGED hist /\ UNCHANGED <<run, cmd, extra>>

DoMarkFailed(h) ==
  /\ ret[h].kind = "chunk"
  /\ \/ MarkChunkFailed(h, ret[h].chunk[1], AudioMissing(ret[h].chunk[1]), TRUE)
     \/ MarkChunkFailed(h, ret[h].chunk[1], EngineError, FALSE)
  /\ UNCHANGED hist
  /\ UNCHANGED <<run, cmd, extra>>

DoClose(h) == Close(h) /\ UNCHANGED hist /\ UNCHANGED <<run, cmd, extra>>

DoCrash(h) == Crash(h) /\ UNCHANGED hist /\ UNCHANGED <<run, cmd, extra>>

Next ==
  \E h \in Handles :
    \/ DoOpen(h)
    \/ DoRegister(h)
    \/ DoClaim(h)
    \/ DoClaimCommit(h)
    \/ DoMarkDone(h)
    \/ DoMarkDoneCommit(h)
    \/ DoMarkFailed(h)
    \/ DoClose(h)
    \/ DoCrash(h)

Spec == Init /\ [][Next]_vars

----------------------------------------------------------------------------
\* One worker at a time: a run opens the store only when no other handle is
\* open.  Runs may reset, may not resume, and the source may change between
\* runs.  how, log and snap record what a run found and what it claimed.

Alone(h) == \A o \in Handles \ {h} : pc[o] = "closed"

DoneIndices(db, fid) ==
  {c.chunk_index : c \in {d \in ChunksOf(db, fid) : d.status = "done"}}

\* what the constructor does about the File record, from its arguments and
\* the content of db_path before the call
HowOf(m, uri, fp) ==
  IF store = "absent" THEN "created"
  ELSE IF m = "reset" THEN (IF store = "corrupt" THEN "recovered" ELSE "reset")
  ELSE IF m = "resume" /\ \E f \in dbs[cur].files :
                             f.source_uri = uri /\ f.fingerprint = fp
         THEN "reused"
         ELSE "fresh"

Forget(h) ==
  /\ how' = [how EXCEPT ![h] = "-"]
  /\ log' = [log EXCEPT ![h] = <<>>]
  /\ snap' = [snap EXCEPT ![h] = {}]

SeqOpen(h) ==
  /\ Alone(h)
  /\ \E m \in Modes :
       /\ Open(h, SourceUri, srcfp, ResumeChunks, m)
       /\ how' = [how EXCEPT ![h] =
                    IF pc'[h] = "opened" THEN HowOf(m, SourceUri, srcfp)
                    ELSE IF m = "reset" THEN "reset failed" ELSE "failed"]
  /\ log' = [log EXCEPT ![h] = <<>>]
  /\ snap' = [snap EXCEPT ![h] =
                IF pc'[h] = "opened" /\ store = "valid"
                  THEN DoneIndices(dbs[cur], FileId(SourceUri))
                  ELSE {}]
  /\ UNCHANGED <<run, cmd, extra>>

SeqRegister(h) ==
  /\ ret[h].kind = "ok"
  /\ \E n \in 1..ResumeChunks : RegisterChunks(h, MakeSpecs(n))
  /\ UNCHANGED hist
  /\ UNCHANGED <<run, cmd, extra>>

SeqClaim(h) ==
  /\ ret[h].kind = "ok"
  /\ ClaimBegin(h)
  /\ UNCHANGED hist
  /\ UNCHANGED <<run, cmd, extra>>

SeqClaimCommit(h) ==
  /\ ClaimCommit(h)
  /\ log' = [log EXCEPT ![h] = Append(@, ret'[h].chunk[1])]
  /\ UNCHANGED <<how, snap>>
  /\ UNCHANGED <<run, cmd, extra>>

SeqMarkDone(h) ==
  /\ ret[h].kind = "chunk"
  /\ \E sha \in Shas :
       MarkDoneBegin(h, ret[h].chunk[1], ArtifactUri(ret[h].chunk[1]), sha)
  /\ UNCHANGED hist
  /\ UNCHANGED <<run, cmd, extra>>

SeqMarkDoneCommit(h) == MarkDoneCommit(h) /\ UNCHANGED hist /\ UNCHANGED <<run, cmd, extra>>

SeqMarkFailed(h) ==
  /\ ret[h].kind = "chunk"
  /\ MarkChunkFailed(h, ret[h].chunk[1], AudioMissing(ret[h].chunk[1]), TRUE)
  /\ UNCHANGED hist
  /\ UNCHANGED <<run, cmd, extra>>

SeqClose(h) == Close(h) /\ Forget(h) /\ UNCHANGED <<run, cmd, extra>>

SeqCrash(h) == Crash(h) /\ Forget(h) /\ UNCHANGED <<run, cmd, extra>>

SeqTouch == TouchSource /\ UNCHANGED hist /\ UNCHANGED <<run, cmd, extra>>

SeqNext ==
  \/ \E h \in Handles :
       \/ SeqOpen(h)
       \/ SeqRegister(h)
       \/ SeqClaim(h)
       \/ SeqClaimCommit(h)
       \/ SeqMarkDone(h)
       \/ SeqMarkDoneCommit(h)
       \/ SeqMarkFailed(h)
       \/ SeqClose(h)
       \/ SeqCrash(h)
  \/ SeqTouch

SpecSeq == Init /\ [][SeqNext]_vars

----------------------------------------------------------------------------
\* One worker at a time that reports both kinds of failure: a run marks the
\* chunk it claimed done, permanent_failed or retryable_failed, and may
\* claim a retryable chunk again.  Runs reopen the store with or without
\* resume.

RetryOpen(h) ==
  /\ Alone(h)
  /\ \E m \in {"resume", "noresume"} :
       /\ Open(h, SourceUri, srcfp, MaxChunks, m)
       /\ how' = [how EXCEPT ![h] =
                    IF pc'[h] = "opened" THEN HowOf(m, SourceUri, srcfp)
                    ELSE "failed"]
  /\ log' = [log EXCEPT ![h] = <<>>]
  /\ snap' = [snap EXCEPT ![h] =
                IF pc'[h] = "opened" /\ store = "valid"
                  THEN DoneIndices(dbs[cur], FileId(SourceUri))
                  ELSE {}]
  /\ UNCHANGED <<run, cmd, extra>>

RetryRegister(h) ==
  /\ ret[h].kind = "ok"
  /\ log[h] = <<>>
  /\ RegisterChunks(h, MakeSpecs(MaxChunks))
  /\ UNCHANGED <<hist, run, cmd, extra>>

\* mark_chunk_failed(index, error, permanent) on the claimed chunk, with
\* either value of permanent
RetryMarkFailed(h) ==
  /\ ret[h].kind = "chunk"
  /\ \/ MarkChunkFailed(h, ret[h].chunk[1], AudioMissing(ret[h].chunk[1]), TRUE)
     \/ /\ Len(log[h]) < MaxClaims
        /\ MarkChunkFailed(h, ret[h].chunk[1], EngineError, FALSE)
  /\ UNCHANGED <<hist, run, cmd, extra>>

RetryNext ==
  \E h \in Handles :
    \/ RetryOpen(h)
    \/ RetryRegister(h)
    \/ SeqClaim(h)
    \/ SeqClaimCommit(h)
    \/ SeqMarkDone(h)
    \/ SeqMarkDoneCommit(h)
    \/ RetryMarkFailed(h)
    \/ SeqClose(h)
    \/ SeqCrash(h)

SpecRetry == Init /\ [][RetryNext]_vars

----------------------------------------------------------------------------
\* Chunk artifacts, reassembly, and the shutdown flag

\* (mutant) the rename of the temporary file never happens
ReplaceLost(d, i, t) == d

\* os.replace(tmp_path, chunk_path) of write_chunk_artifact
Replaced(d, i, t) == [d EXCEPT ![i] = File(t)]

\* (mutant) the parts collected from the last index down to the first
RECURSIVE PartsReversed(_, _, _)
PartsReversed(d, idx, total) ==
  IF idx >= total THEN <<>>
  ELSE IF d[idx] = NoFile THEN PartsReversed(d, idx + 1, total)
  ELSE LET t == Strip(d[idx][1]) IN
       IF t # <<>> THEN PartsReversed(d, idx + 1, total) \o <<t>>
       ELSE PartsReversed(d, idx + 1, total)

\* (mutant) a missing artifact ends the loop instead of being skipped
RECURSIVE PartsUntilMissing(_, _, _)
PartsUntilMissing(d, idx, total) ==
  IF idx >= total THEN <<>>
  ELSE IF d[idx] = NoFile THEN <<>>
  ELSE LET t == Strip(d[idx][1]) IN
       IF t # <<>> THEN <<t>> \o PartsUntilMissing(d, idx + 1, total)
       ELSE PartsUntilMissing(d, idx + 1, total)

\* the loop of _finalize_chunk_transcripts from idx on: for idx in
\* range(total_chunks), skip a missing file, strip, keep a non-empty text
RECURSIVE PartsFrom(_, _, _)
PartsFrom(d, idx, total) ==
  IF idx >= total THEN <<>>
  ELSE IF d[idx] = NoFile THEN PartsFrom(d, idx + 1, total)
  ELSE LET t == Strip(d[idx][1]) IN
       IF t # <<>> THEN <<t>> \o PartsFrom(d, idx + 1, total)
       ELSE PartsFrom(d, idx + 1, total)

\* "\n".join(parts)
RECURSIVE Join(_)
Join(parts) ==
  IF parts = <<>> THEN <<>>
  ELSE IF Len(parts) = 1 THEN parts[1]
  ELSE parts[1] \o <<"\n">> \o Join(Tail(parts))

\* combined, as _finalize_chunk_transcripts computes it from chunk_dir
Finalize(d, total) == Join(PartsFrom(d, 0, total))

OutputUri == <<"output_path">>

\* UPDATE files SET final_output_uri = ?, final_output_sha256 = ? WHERE file_id = ?
SetFinalOutput(b, fid, uri, sha) ==
  [b EXCEPT !.files =
     {IF f.file_id = fid
        THEN [f EXCEPT !.final_output_uri = uri, !.final_output_sha256 = sha]
        ELSE f : f \in b.files}]

\* persist_final_output(uri, sha256): one UPDATE, committed
PersistFinalOutput(h, uri, sha) ==
  /\ pc[h] = "idle"
  /\ \/ /\ LockFree(conn[h], h)
        /\ dbs' = [dbs EXCEPT ![conn[h]] = SetFinalOutput(@, file_id[h], uri, sha)]
        /\ ret' = [ret EXCEPT ![h] = Result("ok")]
     \/ /\ ~LockFree(conn[h], h)
        /\ ret' = [ret EXCEPT ![h] = Result("locked")]
        /\ UNCHANGED dbs
  /\ UNCHANGED <<store, cur, srcfp, pc, conn, file_id, tx>>

Signums == {15, 2}
ReasonOf(signum) == IF signum = 15 THEN "signal_15" ELSE "signal_2"

\* ShutdownCoordinator.__init__: the flag and the reason of a new process
NewCoordinator ==
  /\ shutdown_requested' = FALSE
  /\ reason' = "None"
  /\ signals' = 0

\* ShutdownCoordinator._handle_signal(signum, frame)
HandleSignal(signum) ==
  /\ shutdown_requested' = TRUE
  /\ reason' = ReasonOf(signum)
  /\ signals' = signals + 1

\* ShutdownCoordinator.should_stop()
ShouldStop == shutdown_requested

----------------------------------------------------------------------------
\* One run of _transcribe_with_chunking after another, one process at a
\* time, on one source and one store, without a shutdown coordinator
\* (shutdown_coordinator is None: spot drain is off).  A process may die at
\* any step.

coord == <<shutdown_requested, reason, signals>>
driver == <<main, poller, queue, todo, interrupted, late, halted, exit_status>>

\* the index of the chunk the last claim of h returned
Claimed(h) == ret[h].chunk[1]

Goes(h, where) == at' = [at EXCEPT ![h] = where]

\* an exception inside the try block: the finally clause runs next, and
\* transcribe_audio will return the error
Raises(h, error) ==
  /\ Goes(h, "finally")
  /\ result' = error

\* (mutant) a chunk without audio ends the loop
AbortsAfterMissing == "finally"

\* the loop's "continue" after a chunk without audio
AfterMissing == "claim"

\* the process is over: nothing of it is left but the files
Gone(h) ==
  /\ Goes(h, "-")
  /\ text' = [text EXCEPT ![h] = <<>>]
  /\ called' = [called EXCEPT ![h] = {}]
  /\ result' = "-"
  /\ Forget(h)
  /\ IF pc[h] # "closed" THEN Drop(h) ELSE UNCHANGED sto

\* checkpoint = CheckpointManager(...)
RunConstruct(h) ==
  /\ \A o \in Handles : at[o] = "-" /\ pc[o] = "closed"
  /\ \E m \in Modes :
       /\ Open(h, SourceUri, srcfp, RunChunks, m)
       /\ how' = [how EXCEPT ![h] =
                    IF pc'[h] = "opened" THEN HowOf(m, SourceUri, srcfp)
                    ELSE "failed"]
  /\ snap' = [snap EXCEPT ![h] =
                IF pc'[h] = "opened" /\ store = "valid"
                  THEN DoneIndices(dbs[cur], FileId(SourceUri))
                  ELSE {}]
  /\ IF pc'[h] = "opened"
       THEN Goes(h, "register") /\ UNCHANGED result
       ELSE Goes(h, "returned") /\ result' = "DatabaseError"
  /\ UNCHANGED <<log, dir, output, text, called, order, cmd, extra>>

\* checkpoint.register_chunks(chunk_specs), before the try block
RunRegister(h) ==
  /\ at[h] = "register"
  /\ RegisterChunks(h, MakeSpecs(RunChunks))
  /\ IF ret'[h].kind = "ok"
       THEN Goes(h, "claim") /\ UNCHANGED result
       ELSE Goes(h, "returned") /\ result' = "OperationalError"
  /\ UNCHANGED <<hist, dir, output, text, called, order, cmd, extra>>

\* spec = checkpoint.claim_next_chunk(); if spec is None: break
RunClaim(h) ==
  /\ at[h] = "claim"
  /\ ClaimBegin(h)
  /\ IF pc'[h] = "claiming" THEN UNCHANGED <<at, result>>
     ELSE IF ret'[h].kind = "none" THEN Goes(h, "finalize") /\ UNCHANGED result
     ELSE Raises(h, "OperationalError")
  /\ UNCHANGED <<hist, dir, output, text, called, order, cmd, extra>>

\* (mutant) the loop goes on to the engine inside the claim's transaction
RunClaimUncommitted(h) ==
  /\ at[h] = "claim"
  /\ pc[h] = "claiming"
  /\ Goes(h, "got")
  /\ ret' = [ret EXCEPT ![h] = tx[h][1].out]
  /\ log' = [log EXCEPT ![h] = Append(@, ret'[h].chunk[1])]
  /\ UNCHANGED <<store, cur, dbs, srcfp, pc, conn, file_id, tx>>
  /\ UNCHANGED <<how, snap, dir, output, text, result, called, order, cmd, extra>>

RunClaimCommit(h) ==
  /\ at[h] = "claim"
  /\ ClaimCommit(h)
  /\ Goes(h, "got")
  /\ log' = [log EXCEPT ![h] = Append(@, ret'[h].chunk[1])]
  /\ UNCHANGED <<how, snap, dir, output, text, result, called, order, cmd, extra>>

\* if not chunk_path or not chunk_path.exists(): mark_chunk_failed(...,
\* permanent=True); continue
RunAudioMissing(h) ==
  /\ at[h] = "got"
  /\ MarkChunkFailed(h, Claimed(h), AudioMissing(Claimed(h)), TRUE)
  /\ IF ret'[h].kind = "ok"
       THEN Goes(h, AfterMissing) /\ UNCHANGED result
       ELSE Raises(h, "OperationalError")
  /\ UNCHANGED <<hist, dir, output, text, called, order, cmd, extra>>

\* result = self.model.transcribe(str(chunk_path), language=language);
\* text = str(result.get("text", "")).strip()
RunTranscribe(h) ==
  /\ at[h] = "got"
  /\ \E raw \in RawTexts(Claimed(h)) : text' = [text EXCEPT ![h] = Strip(raw)]
  /\ called' = [called EXCEPT ![h] = @ \cup {Claimed(h)}]
  /\ Goes(h, "write")
  /\ UNCHANGED <<sto, hist, dir, output, result, order, cmd, extra>>

\* self.model.transcribe raises
RunEngineRaises(h) ==
  /\ at[h] = "got"
  /\ called' = [called EXCEPT ![h] = @ \cup {Claimed(h)}]
  /\ Raises(h, "engine error")
  /\ UNCHANGED <<sto, hist, dir, output, text, order, cmd, extra>>

\* (mutant) should_stop() is also tested when the engine returns, and the
\* text of the chunk is dropped on a request
RunWriteUnlessStopped(h) ==
  /\ at[h] = "write"
  /\ IF ShouldStop
       THEN /\ Raises(h, "Shutdown requested before processing next chunk")
            /\ UNCHANGED dir
       ELSE /\ dir' = [dir EXCEPT ![Claimed(h)] = File(text[h])]
            /\ Goes(h, "mark")
            /\ UNCHANGED result
  /\ UNCHANGED <<sto, hist, output, text, called, order, cmd, extra>>

\* checkpoint.write_chunk_artifact(chunk_dir, chunk_index, text): the text
\* goes to chunk_NNNN.txt.tmp, which is fsynced and then renamed to
\* chunk_NNNN.txt, so chunk_NNNN.txt has its old content or all of the new
RunWriteArtifact(h) ==
  /\ at[h] = "write"
  /\ dir' = Replaced(dir, Claimed(h), text[h])
  /\ Goes(h, "mark")
  /\ UNCHANGED <<sto, hist, output, text, result, called, order, cmd, extra>>

\* checkpoint.mark_chunk_done(chunk_index, str(chunk_artifact_path), sha)
RunMarkDone(h) ==
  /\ at[h] = "mark"
  /\ MarkDoneBegin(h, Claimed(h), ArtifactUri(Claimed(h)), Sha256(text[h]))
  /\ IF pc'[h] = "marking" THEN UNCHANGED <<at, result>>
     ELSE Raises(h, "OperationalError")
  /\ UNCHANGED <<hist, dir, output, text, called, order, cmd, extra>>

RunMarkDoneCommit(h) ==
  /\ at[h] = "mark"
  /\ MarkDoneCommit(h)
  /\ Goes(h, "claim")
  /\ UNCHANGED <<hist, dir, output, text, result, called, order, cmd, extra>>

\* _finalize_chunk_transcripts up to the fsync of the output file
RunFinalize(h) ==
  /\ at[h] = "finalize"
  /\ output' = File(Finalize(dir, RunChunks))
  /\ Goes(h, "persist")
  /\ UNCHANGED <<sto, hist, dir, text, result, called, order, cmd, extra>>

\* checkpoint.persist_final_output(str(output_path), final_sha); return combined
RunPersist(h) ==
  /\ at[h] = "persist"
  /\ PersistFinalOutput(h, OutputUri, Sha256(output[1]))
  /\ IF ret'[h].kind = "ok"
       THEN Raises(h, "success")
       ELSE Raises(h, "OperationalError")
  /\ UNCHANGED <<hist, dir, output, text, called, order, cmd, extra>>

\* finally: checkpoint.close(); transcribe_audio returns its result
RunFinally(h) ==
  /\ at[h] = "finally"
  /\ Close(h)
  /\ Goes(h, "returned")
  /\ UNCHANGED <<hist, dir, output, text, result, called, order, cmd, extra>>

\* the process exits
RunExit(h) ==
  /\ at[h] = "returned"
  /\ Gone(h)
  /\ UNCHANGED <<dir, output, order, cmd, extra>>

\* the process dies
RunCrash(h) ==
  /\ at[h] \notin {"-", "returned"}
  /\ Gone(h)
  /\ UNCHANGED <<dir, output, order, cmd, extra>>

RunNext ==
  \E h \in Runners :
    \/ RunConstruct(h)
    \/ RunRegister(h)
    \/ RunClaim(h)
    \/ RunClaimCommit(h)
    \/ RunAudioMissing(h)
    \/ RunTranscribe(h)
    \/ RunEngineRaises(h)
    \/ RunWriteArtifact(h)
    \/ RunMarkDone(h)
    \/ RunMarkDoneCommit(h)
    \/ RunFinalize(h)
    \/ RunPersist(h)
    \/ RunFinally(h)
    \/ RunExit(h)
    \/ RunCrash(h)

SpecRun == Init /\ [][RunNext]_vars

\* the same runs, where a process that can take a step (or die) does so:
\* every call of the engine and of the store returns or raises
SpecRunFair == SpecRun /\ WF_vars(RunNext)

----------------------------------------------------------------------------
\* Reassembly alone: chunk artifacts are written into chunk_dir in any
\* order, by any process, a chunk possibly more than once (a restart redoes
\* it), and _finalize_chunk_transcripts is run on what chunk_dir holds.
\* order records the indices in the order their artifacts were written.

\* write_chunk_artifact(chunk_dir, i, text) with the stripped engine text
AsmWrite(i) ==
  /\ Len(order) < AssembleChunks
  /\ \E raw \in RawTexts(i) : dir' = Replaced(dir, i, Strip(raw))
  /\ order' = Append(order, i)
  /\ UNCHANGED <<sto, hist, output, at, text, result, called, cmd, extra>>

\* _finalize_chunk_transcripts(chunk_dir, total_chunks, output_path, ...)
AsmFinalize ==
  /\ output' = File(Finalize(dir, AssembleChunks))
  /\ UNCHANGED <<sto, hist, dir, at, text, result, called, order, cmd, extra>>

AsmNext ==
  \/ \E i \in Slots : AsmWrite(i)
  \/ AsmFinalize

SpecAssemble == Init /\ [][AsmNext]_vars

----------------------------------------------------------------------------
\* One transcribe command on local files with spot drain on: the main
\* thread in cmd_transcribe, transcribe_audio and the chunk loop, the
\* signal handler, and the daemon thread of _poll_imds_loop.  The store is
\* reduced to todo, the number of chunks of the current file that a claim
\* can still return.

files == <<sto, hist, dir, output, at, text, called, order>>

MainGoes(where) == main' = where

\* transcribe_audio catches the exception and returns a failed result;
\* cmd_transcribe logs it and goes to the next file
FileFails(error) ==
  /\ result' = error
  /\ MainGoes("next file")

\* a should_stop() that returned True and raised
Stops(error) ==
  /\ halted' = TRUE
  /\ FileFails(error)

\* cmd_transcribe up to the first file: the coordinator is constructed,
\* with its polling thread if the poll interval is positive
CmdStart ==
  /\ main = "-"
  /\ NewCoordinator
  /\ \E n \in 1..MaxFiles : queue' = n
  /\ \E poll_imds \in BOOLEAN : poller' = IF poll_imds THEN "test" ELSE "-"
  /\ MainGoes("next file")
  /\ UNCHANGED <<todo, interrupted, late, halted, exit_status, result, files, extra>>

\* for local_path in local_files: if shutdown_coordinator.should_stop():
\* interrupted = True; break
CmdNextFile ==
  /\ main = "next file"
  /\ IF queue = 0 THEN MainGoes("cleanup") /\ UNCHANGED <<queue, interrupted, halted>>
     ELSE IF ShouldStop
       THEN /\ interrupted' = TRUE
            /\ halted' = TRUE
            /\ MainGoes("cleanup")
            /\ UNCHANGED queue
       ELSE /\ queue' = queue - 1
            /\ MainGoes("validate")
            /\ UNCHANGED <<interrupted, halted>>
  /\ UNCHANGED <<coord, poller, todo, late, exit_status, result, files, extra>>

\* validate_file: an invalid file is skipped (continue); local_path.stat()
\* may raise, which the outer handler turns into sys.exit(1); a valid file
\* goes to process_video and transcribe_audio
CmdValidate ==
  /\ main = "validate"
  /\ \/ MainGoes("next file") /\ UNCHANGED <<todo, exit_status>>
     \/ MainGoes("exited") /\ exit_status' = 1 /\ UNCHANGED todo
     \/ /\ MainGoes("enter")
        /\ \E n \in 1..RunChunks : todo' = n
        /\ UNCHANGED exit_status
  /\ UNCHANGED <<coord, poller, queue, interrupted, late, halted, result, files, extra>>

\* transcribe_audio: if shutdown_coordinator.should_stop(): raise
CmdEnter ==
  /\ main = "enter"
  /\ IF ShouldStop
       THEN Stops("Shutdown requested before chunk processing")
       ELSE MainGoes("check") /\ UNCHANGED <<halted, result>>
  /\ UNCHANGED <<coord, poller, queue, todo, interrupted, late, exit_status, files, extra>>

\* (mutant) a loop whose check before the claim never sees the request
CmdCheckBlind ==
  /\ main = "check"
  /\ MainGoes("claim") /\ UNCHANGED <<halted, result>>
  /\ UNCHANGED <<coord, poller, queue, todo, interrupted, late, exit_status, files, extra>>

\* while True: if shutdown_coordinator.should_stop(): raise
CmdCheck ==
  /\ main = "check"
  /\ IF ShouldStop
       THEN Stops("Shutdown requested before processing next chunk")
       ELSE MainGoes("claim") /\ UNCHANGED <<halted, result>>
  /\ UNCHANGED <<coord, poller, queue, todo, interrupted, late, exit_status, files, extra>>

\* spec = checkpoint.claim_next_chunk(); if spec is None: break
CmdClaim ==
  /\ main = "claim"
  /\ IF todo = 0 THEN MainGoes("drained") /\ UNCHANGED <<todo, late>>
     ELSE /\ todo' = todo - 1
          /\ late' = shutdown_requested
          /\ MainGoes("claimed")
  /\ UNCHANGED <<coord, poller, queue, interrupted, halted, exit_status, result, files, extra>>

\* the chunk has no audio: mark_chunk_failed, continue; or the engine is
\* called on it
CmdClaimed ==
  /\ main = "claimed"
  /\ MainGoes("check") \/ MainGoes("transcribing")
  /\ UNCHANGED <<coord, poller, queue, todo, interrupted, late, halted, exit_status,
                 result, files, extra>>

\* model.transcribe returns, the artifact is written, the chunk is marked
\* done; or model.transcribe raises
CmdTranscribed ==
  /\ main = "transcribing"
  /\ \/ MainGoes("check") /\ UNCHANGED result
     \/ FileFails("engine error")
  /\ UNCHANGED <<coord, poller, queue, todo, interrupted, late, halted, exit_status,
                 files, extra>>

\* after the loop: if shutdown_coordinator.should_stop(): raise; else
\* finalize and return the text
CmdDrained ==
  /\ main = "drained"
  /\ IF ShouldStop
       THEN Stops("Shutdown requested during chunk processing")
       ELSE FileFails("success") /\ UNCHANGED halted
  /\ UNCHANGED <<coord, poller, queue, todo, interrupted, late, exit_status, files, extra>>

\* cleanup; if interrupted: sys.exit(2); else cmd_transcribe returns and
\* main() returns 0
CmdCleanup ==
  /\ main = "cleanup"
  /\ exit_status' = IF interrupted THEN 2 ELSE 0
  /\ MainGoes("exited")
  /\ UNCHANGED <<coord, poller, queue, todo, interrupted, late, halted, result, files, extra>>

\* SIGTERM or SIGINT is delivered: _handle_signal runs in the main thread
CmdSignal ==
  /\ main \notin {"-", "exited"}
  /\ signals < MaxSignals
  /\ \E signum \in Signums : HandleSignal(signum)
  /\ UNCHANGED <<driver, result, files, extra>>

\* (mutant) a poll thread that goes on polling whatever the flag says
PollTestIgnoresFlag ==
  /\ poller = "test"
  /\ main # "exited"
  /\ poller' = "fetch"
  /\ UNCHANGED <<coord, main, queue, todo, interrupted, late, halted, exit_status,
                 result, files, extra>>

\* _poll_imds_loop: while not self.shutdown_requested
PollTest ==
  /\ poller = "test"
  /\ main # "exited"
  /\ poller' = IF shutdown_requested THEN "done" ELSE "fetch"
  /\ UNCHANGED <<coord, main, queue, todo, interrupted, late, halted, exit_status,
                 result, files, extra>>

\* what one turn of the poll can meet: _fetch_imds_token raises, or returns
\* an empty token; _check_interruption gets status 200, another 2xx status,
\* an HTTPError with code 404, or raises (another HTTPError, URLError, a
\* timeout)
PollOutcomes ==
  {"token failed", "token empty", "notice", "other status", "not found",
   "query failed"}

\* the outcomes that are exceptions reaching "except Exception"
PollFailures == {"token failed", "query failed"}

\* (mutant) an exception of the poll taken for an interruption notice
AfterPollFailureStops(outcome) ==
  IF outcome \in {"notice"} \cup PollFailures THEN "flag" ELSE "test"

\* if token and self._check_interruption(token): the flag is set; else, and
\* after an exception, time.sleep and the next turn
AfterPoll(outcome) == IF outcome = "notice" THEN "flag" ELSE "test"

\* _fetch_imds_token and _check_interruption, with "except Exception"
PollFetch ==
  /\ poller = "fetch"
  /\ main # "exited"
  /\ \E outcome \in PollOutcomes :
       /\ polled' = outcome
       /\ poller' = AfterPoll(outcome)
  /\ UNCHANGED <<coord, main, queue, todo, interrupted, late, halted, exit_status,
                 result, files, plan, inflight, fs, faults, previous>>

\* self.shutdown_requested = True
PollSetFlag ==
  /\ poller = "flag"
  /\ main # "exited"
  /\ shutdown_requested' = TRUE
  /\ poller' = "reason"
  /\ UNCHANGED <<reason, signals, main, queue, todo, interrupted, late, halted,
                 exit_status, result, files, extra>>

\* self.reason = "spot_imds"; break
PollSetReason ==
  /\ poller = "reason"
  /\ main # "exited"
  /\ reason' = "spot_imds"
  /\ poller' = "done"
  /\ UNCHANGED <<shutdown_requested, signals, main, queue, todo, interrupted, late,
                 halted, exit_status, result, files, extra>>

MainNext ==
  \/ CmdStart
  \/ CmdNextFile
  \/ CmdValidate
  \/ CmdEnter
  \/ CmdCheck
  \/ CmdClaim
  \/ CmdClaimed
  \/ CmdTranscribed
  \/ CmdDrained
  \/ CmdCleanup
  \/ CmdSignal
  \/ PollTest
  \/ PollFetch
  \/ PollSetFlag
  \/ PollSetReason

SpecMain == Init /\ [][MainNext]_vars

\* the main thread and the poll thread are scheduled, and every call they
\* make returns
SpecMainFair == SpecMain /\ WF_vars(MainNext)

----------------------------------------------------------------------------
\* The processing loop with the shutdown coordinator: one process after
\* another, each on the same source and store, each with a coordinator of
\* its own and the signal handler installed.  main is "enter" while a
\* process lives; a process ends by returning from transcribe_audio.  The steps of the loop that do not read the flag are
\* those of the runs without a coordinator.

\* the RuntimeErrors raised on should_stop() in the loop and after it
StopErrors ==
  {"Shutdown requested before processing next chunk",
   "Shutdown requested during chunk processing"}

\* the process starts: ShutdownCoordinator() is constructed
DrainStart ==
  /\ main = "-"
  /\ \A o \in Handles : at[o] = "-" /\ pc[o] = "closed"
  /\ NewCoordinator
  /\ MainGoes("enter")
  /\ inflight' = {}
  /\ UNCHANGED <<poller, queue, todo, interrupted, late, halted, exit_status>>
  /\ UNCHANGED <<sto, hist, run, plan, polled, fs, faults, previous>>

\* transcribe_audio: if should_stop(): raise; else the chunk plan and
\* checkpoint = CheckpointManager(...)
DrainEnter(h) ==
  /\ main = "enter"
  /\ at[h] = "-"
  /\ IF ShouldStop
       THEN /\ Goes(h, "returned")
            /\ result' = "Shutdown requested before chunk processing"
            /\ UNCHANGED <<sto, hist, dir, output, text, called, order, cmd, extra>>
       ELSE RunConstruct(h)

\* while True: if should_stop(): raise; spec = claim_next_chunk()
DrainClaim(h) ==
  /\ main = "enter"
  /\ at[h] = "claim"
  /\ IF ShouldStop /\ pc[h] = "idle"
       THEN /\ Raises(h, "Shutdown requested before processing next chunk")
            /\ UNCHANGED <<sto, hist, dir, output, text, called, order, cmd, extra>>
       ELSE RunClaim(h)

\* (mutant) the loop's end goes to the reassembly without reading the flag
DrainFinalizeUnchecked(h) ==
  /\ main = "enter"
  /\ at[h] = "finalize"
  /\ RunFinalize(h)

\* after the loop: if should_stop(): raise; else _finalize_chunk_transcripts
DrainFinalize(h) ==
  /\ main = "enter"
  /\ at[h] = "finalize"
  /\ IF ShouldStop
       THEN /\ Raises(h, "Shutdown requested during chunk processing")
            /\ UNCHANGED <<sto, hist, dir, output, text, called, order, cmd, extra>>
       ELSE RunFinalize(h)

\* SIGTERM or SIGINT is delivered to the process: _handle_signal runs
\* between two steps of the main thread.  Only the first request of a
\* process is delivered here: a later one changes the reason alone, which
\* the loop does not read.  A request during model.transcribe is a request
\* at its return, before the text is written: the engine does not read the
\* flag.
DrainSignal ==
  /\ main = "enter"
  /\ ~shutdown_requested
  /\ \E signum \in Signums : HandleSignal(signum)
  /\ inflight' = inflight \cup {Claimed(h) : h \in {r \in Runners : at[r] = "write"}}
  /\ UNCHANGED <<driver, sto, hist, run, plan, polled, fs, faults, previous>>

\* transcribe_audio has returned and the process exits: nothing of it is
\* left but the files
DrainExit(h) ==
  /\ main = "enter"
  /\ at[h] = "returned"
  /\ Gone(h)
  /\ NewCoordinator
  /\ inflight' = {}
  /\ MainGoes("-")
  /\ UNCHANGED <<dir, output, order, poller, queue, todo, interrupted,
                 late, halted, exit_status, plan, polled, fs, faults, previous>>

DrainNext ==
  \/ DrainStart
  \/ DrainSignal
  \/ \E h \in Runners :
       \/ DrainEnter(h)
       \/ RunRegister(h)
       \/ DrainClaim(h)
       \/ RunClaimCommit(h)
       \/ RunAudioMissing(h)
       \/ RunTranscribe(h)
       \/ RunEngineRaises(h)
       \/ RunWriteArtifact(h)
       \/ RunMarkDone(h)
       \/ RunMarkDoneCommit(h)
       \/ DrainFinalize(h)
       \/ RunPersist(h)
       \/ RunFinally(h)
       \/ DrainExit(h)

SpecDrain == Init /\ [][DrainNext]_vars

----------------------------------------------------------------------------
\* The files of one job at the level of the system calls: chunk_dir with
\* chunk_NNNN.txt and chunk_NNNN.txt.tmp, and output_path.  One process at
\* a time writes; it may die at any step (the files stay as they are), and
\* the machine may lose power at any step (the files are then what stable
\* storage has).  File data is on stable storage after fsync of the file, a
\* directory entry after fsync of the directory; without fsync either may
\* or may not have reached it.

\* the chunk indices artifacts are written for
ArtifactSlots == 0..(MaxArtifacts - 1)

\* stripped texts of chunk i, of two characters, none a prefix of the other
ArtifactTexts(i) == {<<Word(i), "!">>, <<Word(i), "?">>}

TmpPath(i) == <<"tmp", i>>
ChunkPath(i) == <<"chunk", i>>
OutputPath == <<"output">>

Prefixes(t) == {SubSeq(t, 1, k) : k \in 0..Len(t)}

\* what a path can hold after a power loss, given what stable storage had
\* for sure (was), what the running system shows (f), and whether the data
\* of f is on stable storage
AfterPowerLoss(was, f, datasynced) ==
  {was} \cup (IF f = NoFile THEN {NoFile}
              ELSE IF datasynced THEN {f}
              ELSE {File(p) : p \in Prefixes(f[1])})

\* the contents chunk_dir can have after a power loss, as sequences over
\* the first k indices
RECURSIVE DirsAfterPowerLoss(_)
DirsAfterPowerLoss(k) ==
  IF k = 0 THEN {<<>>}
  ELSE {Append(q, f) :
          q \in DirsAfterPowerLoss(k - 1),
          f \in AfterPowerLoss(stable[k - 1], dir[k - 1], ChunkPath(k - 1) \in synced)}

Idle == writing.at = "-" /\ finalizing.at = "-"

FsUnchanged == UNCHANGED <<sto, hist, at, text, result, called, order,
                           cmd, plan, inflight, polled, faults, previous>>

\* (mutant) the text is written straight into chunk_NNNN.txt
ArtOpenInPlace(i, t) ==
  /\ Idle
  /\ dir' = [dir EXCEPT ![i] = File(<<>>)]
  /\ synced' = synced \ {ChunkPath(i)}
  /\ writing' = [at |-> "opened", index |-> i, text |-> t]
  /\ returned' = <<>>
  /\ UNCHANGED <<tmp, stable, output, finalizing, stableout, recorded>>
  /\ FsUnchanged

\* write_chunk_artifact(chunk_dir, i, t) up to open(tmp_path, "w"): the
\* temporary file is created, or truncated if it was left behind
ArtOpen(i, t) ==
  /\ Idle
  /\ tmp' = [tmp EXCEPT ![i] = File(<<>>)]
  /\ synced' = synced \ {TmpPath(i)}
  /\ writing' = [at |-> "opened", index |-> i, text |-> t]
  /\ returned' = <<>>
  /\ UNCHANGED <<dir, stable, output, finalizing, stableout, recorded>>
  /\ FsUnchanged

\* f.write(text); f.flush(): the text reaches the file piece by piece
ArtWrite ==
  /\ writing.at = "opened"
  /\ LET i == writing.index
         had == tmp[i][1]
     IN /\ Len(had) < Len(writing.text)
        /\ tmp' = [tmp EXCEPT ![i] = File(Append(had, writing.text[Len(had) + 1]))]
  /\ UNCHANGED <<dir, synced, stable, writing, returned, output,
                 finalizing, stableout, recorded>>
  /\ FsUnchanged

\* os.fsync(f.fileno()) and the close of the file
ArtFsync ==
  /\ writing.at = "opened"
  /\ tmp[writing.index][1] = writing.text
  /\ synced' = synced \cup {TmpPath(writing.index)}
  /\ writing' = [writing EXCEPT !.at = "synced"]
  /\ UNCHANGED <<dir, tmp, stable, returned, output, finalizing,
                 stableout, recorded>>
  /\ FsUnchanged

\* os.replace(tmp_path, chunk_path): chunk_NNNN.txt is the temporary file,
\* in one step; the change of the directory is not yet on stable storage
ArtReplace ==
  /\ writing.at = "synced"
  /\ LET i == writing.index IN
     /\ dir' = Replaced(dir, i, tmp[i][1])
     /\ tmp' = [tmp EXCEPT ![i] = NoFile]
     /\ synced' = (synced \ {TmpPath(i), ChunkPath(i)}) \cup
                  (IF TmpPath(i) \in synced THEN {ChunkPath(i)} ELSE {})
  /\ writing' = [writing EXCEPT !.at = "replaced"]
  /\ UNCHANGED <<stable, returned, output, finalizing, stableout, recorded>>
  /\ FsUnchanged

\* os.fsync(dir_fd): the entries of chunk_dir are on stable storage
ArtDirFsync ==
  /\ writing.at = "replaced"
  /\ stable' = dir
  /\ writing' = [writing EXCEPT !.at = "dirsynced"]
  /\ UNCHANGED <<dir, tmp, synced, returned, output, finalizing,
                 stableout, recorded>>
  /\ FsUnchanged

\* sha = hashlib.sha256(text.encode("utf-8")).hexdigest(); return chunk_path, sha
ArtReturn ==
  /\ writing.at = "dirsynced"
  /\ returned' = <<ArtifactUri(writing.index), Sha256(writing.text)>>
  /\ writing' = NotWriting
  /\ UNCHANGED <<dir, tmp, synced, stable, output, finalizing,
                 stableout, recorded>>
  /\ FsUnchanged

\* the process dies inside a call: the files stay as the system shows them
FsProcessDies ==
  /\ ~Idle
  /\ writing' = NotWriting
  /\ finalizing' = NotFinalizing
  /\ UNCHANGED <<dir, tmp, synced, stable, returned, output,
                 stableout, recorded>>
  /\ FsUnchanged

\* the machine loses power: every path of chunk_dir is left with what
\* stable storage got of it; a temporary file may be left behind
ArtPowerLoss ==
  /\ writing' = NotWriting
  /\ returned' = <<>>
  /\ \E q \in DirsAfterPowerLoss(AssembleChunks) :
       dir' = [i \in Slots |-> q[i + 1]]
  /\ \E left \in SUBSET {i \in Slots : TmpPath(i) \in synced} :
       tmp' = [i \in Slots |-> IF i \in left THEN tmp[i] ELSE NoFile]
  /\ stable' = dir'
  /\ synced' = {ChunkPath(i) : i \in {j \in Slots : dir'[j] # NoFile}} \cup
               {TmpPath(i) : i \in {j \in Slots : tmp'[j] # NoFile}}
  /\ UNCHANGED <<output, finalizing, stableout, recorded>>
  /\ FsUnchanged

FsNext ==
  \/ \E i \in ArtifactSlots : \E t \in ArtifactTexts(i) : ArtOpen(i, t)
  \/ ArtWrite
  \/ ArtFsync
  \/ ArtReplace
  \/ ArtDirFsync
  \/ ArtReturn
  \/ FsProcessDies
  \/ ArtPowerLoss

SpecFs == Init /\ [][FsNext]_vars

----------------------------------------------------------------------------
\* output_path at the level of the system calls: chunk artifacts appear in
\* chunk_dir whole (write_chunk_artifact has returned), and
\* _finalize_chunk_transcripts is run on what chunk_dir holds.  The process
\* may die and the machine may lose power at any step of it.

\* _finalize_chunk_transcripts up to open(output_path, "w"): the artifacts
\* are read and joined, and output_path is created, or truncated if it was
\* there
FinOpen ==
  /\ Idle
  /\ finalizing' = [at |-> "opened", combined |-> Finalize(dir, AssembleChunks),
                    before |-> output]
  /\ output' = File(<<>>)
  /\ synced' = synced \ {OutputPath}
  /\ UNCHANGED <<dir, tmp, stable, writing, returned, stableout, recorded>>
  /\ FsUnchanged

\* final_file.write(combined); final_file.flush()
FinWrite ==
  /\ finalizing.at = "opened"
  /\ Len(output[1]) < Len(finalizing.combined)
  /\ output' = File(Append(output[1], finalizing.combined[Len(output[1]) + 1]))
  /\ UNCHANGED <<dir, tmp, synced, stable, writing, returned,
                 finalizing, stableout, recorded>>
  /\ FsUnchanged

\* os.fsync(final_file.fileno()) and the close of the file
FinFsync ==
  /\ finalizing.at = "opened"
  /\ output[1] = finalizing.combined
  /\ synced' = synced \cup {OutputPath}
  /\ finalizing' = [finalizing EXCEPT !.at = "synced"]
  /\ UNCHANGED <<dir, tmp, stable, writing, returned, output,
                 stableout, recorded>>
  /\ FsUnchanged

\* final_sha = sha256(combined); checkpoint.persist_final_output(str(
\* output_path), final_sha); return combined
FinPersist ==
  /\ finalizing.at = "synced"
  /\ recorded' = Sha256(finalizing.combined)
  /\ finalizing' = NotFinalizing
  /\ UNCHANGED <<dir, tmp, synced, stable, writing, returned, output,
                 stableout>>
  /\ FsUnchanged

\* the process dies inside _finalize_chunk_transcripts
FinProcessDies ==
  /\ finalizing.at # "-"
  /\ finalizing' = NotFinalizing
  /\ UNCHANGED <<dir, tmp, synced, stable, writing, returned, output,
                 stableout, recorded>>
  /\ FsUnchanged

\* the machine loses power: output_path is left with what stable storage
\* got of it (the artifacts were forced to stable storage when written)
FinPowerLoss ==
  /\ finalizing' = NotFinalizing
  /\ output' \in AfterPowerLoss(stableout, output, OutputPath \in synced)
  /\ stableout' = output'
  /\ synced' = (synced \ {OutputPath}) \cup
               (IF output' # NoFile THEN {OutputPath} ELSE {})
  /\ UNCHANGED <<dir, tmp, stable, writing, returned, recorded>>
  /\ FsUnchanged

\* a chunk artifact appears in chunk_dir while no call is running
FinArtifact(i) ==
  /\ Idle
  /\ AsmWrite(i)

FinNext ==
  \/ \E i \in Slots : FinArtifact(i)
  \/ FinOpen
  \/ FinWrite
  \/ FinFsync
  \/ FinPersist
  \/ FinProcessDies
  \/ FinPowerLoss

SpecFin == Init /\ [][FinNext]_vars

----------------------------------------------------------------------------
\* The chunk plan of _transcribe_with_chunking: the duration is probed, the
\* audio is cut into chunk files by split_audio_into_chunks, and one
\* ChunkSpec is built per chunk file that was kept.  Durations are counted
\* in ticks (a fixed fraction of a second), so that the total duration need
\* not be a multiple of the chunk length.

\* math.ceil(total_duration / chunk_seconds)
Ceil(d, l) == (d + l - 1) \div l

Max(a, b) == IF a >= b THEN a ELSE b
Min(a, b) == IF a <= b THEN a ELSE b

\* _chunk_plan_hash(payload): sha256 of the JSON of the payload
ChunkPlanHash(payload) == <<"sha256", payload>>

\* the ChunkSpec of position idx in chunk_paths
SpecOf(idx, duration, length) ==
  LET start == idx * length
      end == Min(duration, (idx + 1) * length)
  IN [index |-> idx, start_seconds |-> start, end_seconds |-> end,
      plan_hash |-> ChunkPlanHash([chunk_seconds |-> length, index |-> idx,
                                   start_seconds |-> start, end_seconds |-> end])]

\* what ffmpeg leaves for the chunk cut at i: a file of more than 100 bytes
\* ("kept"), a file of at most 100 bytes ("small": a WAV header with next
\* to no samples), or an error exit ("failed").  A chunk that starts at or
\* after the end of the audio has no samples.
Extractions(i, duration, length) ==
  IF i * length < duration THEN {"kept", "small", "failed"}
  ELSE {"small", "failed"}

PlanUnchanged == UNCHANGED <<sto, hist, run, cmd, inflight, polled, fs, faults, previous>>

\* total_duration = self.get_audio_duration(audio_path);
\* num_chunks = max(1, math.ceil(total_duration / chunk_seconds))
PlanProbe ==
  /\ planning = "-"
  /\ \E d \in 0..MaxDuration, l \in 1..MaxChunkSeconds :
       /\ total_duration' = d
       /\ chunk_seconds' = l
       /\ num_chunks' = Max(1, Ceil(d, l))
  /\ extracting' = 0
  /\ planning' = "split"
  /\ UNCHANGED <<chunk_paths, chunk_specs>>
  /\ PlanUnchanged

\* one turn of "for i in range(num_chunks)": ffmpeg is run; the file is
\* appended to chunk_paths if it exists and has more than 100 bytes, is
\* unlinked if it is smaller; CalledProcessError breaks the loop
PlanExtract ==
  /\ planning = "split"
  /\ extracting < num_chunks
  /\ \E outcome \in Extractions(extracting, total_duration, chunk_seconds) :
       /\ chunk_paths' = IF outcome = "kept" THEN Append(chunk_paths, extracting)
                         ELSE chunk_paths
       /\ IF outcome = "failed"
            THEN planning' = "specs" /\ UNCHANGED extracting
            ELSE extracting' = extracting + 1 /\ UNCHANGED planning
  /\ UNCHANGED <<total_duration, chunk_seconds, num_chunks, chunk_specs>>
  /\ PlanUnchanged

\* the loop is over: return chunk_paths
PlanSplitDone ==
  /\ planning = "split"
  /\ extracting = num_chunks
  /\ planning' = "specs"
  /\ UNCHANGED <<total_duration, chunk_seconds, num_chunks, extracting,
                 chunk_paths, chunk_specs>>
  /\ PlanUnchanged

\* if not chunk_paths: raise RuntimeError; for idx in
\* range(len(chunk_paths)): chunk_specs.append(ChunkSpec(...))
PlanSpecs ==
  /\ planning = "specs"
  /\ IF chunk_paths = <<>>
       THEN planning' = "failed" /\ UNCHANGED chunk_specs
       ELSE /\ chunk_specs' = [k \in 1..Len(chunk_paths) |->
                                 SpecOf(k - 1, total_duration, chunk_seconds)]
            /\ planning' = "planned"
  /\ UNCHANGED <<total_duration, chunk_seconds, num_chunks, extracting, chunk_paths>>
  /\ PlanUnchanged

\* chunk_map = {spec.index: chunk_paths[spec.index] for spec in chunk_specs}:
\* for each index of the plan, the segment (named by the index the splitter
\* cut it at) whose file the loop hands to the engine
chunk_map == [idx \in 0..(Len(chunk_specs) - 1) |-> chunk_paths[idx + 1]]

PlanNext ==
  \/ PlanProbe
  \/ PlanExtract
  \/ PlanSplitDone
  \/ PlanSpecs

SpecPlan == Init /\ [][PlanNext]_vars

----------------------------------------------------------------------------
\* Runs of one file whose chunk length differs from run to run: each run
\* plans the audio with its own chunk_seconds, opens the store with resume,
\* registers its specs, then claims and completes chunks until it closes or
\* dies.  Every extraction succeeds.

\* the chunk lengths a run may be configured with
ReplanLengths == {MaxChunkSeconds, MaxChunkSeconds + 1}

\* chunk_specs of _transcribe_with_chunking for the chunk length
ReplanSpecs(length) ==
  [k \in 1..Max(1, Ceil(MaxDuration, length)) |-> SpecOf(k - 1, MaxDuration, length)]

\* _transcribe_with_chunking up to CheckpointManager(...): the plan of this
\* run and the constructor with resume=True
ReplanOpen(h) ==
  /\ Alone(h)
  /\ \E length \in ReplanLengths :
       /\ chunk_seconds' = length
       /\ chunk_specs' = ReplanSpecs(length)
       /\ Open(h, SourceUri, srcfp, Len(ReplanSpecs(length)), "resume")
  /\ how' = [how EXCEPT ![h] =
               IF pc'[h] = "opened" THEN HowOf("resume", SourceUri, srcfp)
               ELSE "failed"]
  /\ log' = [log EXCEPT ![h] = <<>>]
  /\ snap' = [snap EXCEPT ![h] =
                IF pc'[h] = "opened" /\ store = "valid"
                  THEN DoneIndices(dbs[cur], FileId(SourceUri))
                  ELSE {}]
  /\ UNCHANGED <<total_duration, num_chunks, extracting, chunk_paths, planning>>
  /\ UNCHANGED <<run, cmd, inflight, polled, fs, faults, previous>>

\* checkpoint.register_chunks(chunk_specs)
ReplanRegister(h) ==
  /\ ret[h].kind = "ok"
  /\ pc[h] = "opened"
  /\ RegisterChunks(h, chunk_specs)
  /\ UNCHANGED <<hist, run, cmd, extra>>

ReplanNext ==
  \E h \in Handles :
    \/ ReplanOpen(h)
    \/ ReplanRegister(h)
    \/ SeqClaim(h)
    \/ SeqClaimCommit(h)
    \/ SeqMarkDone(h)
    \/ SeqMarkDoneCommit(h)
    \/ SeqClose(h)
    \/ SeqCrash(h)

SpecReplan == Init /\ [][ReplanNext]_vars

----------------------------------------------------------------------------
\* Runs of the processing loop on one source, one after the other, each
\* opening the store with resume.  A run may be cut short by the death of
\* the process, by a shutdown request or by an exception of the engine, at
\* most MaxFaults times in all; the splitter yields every segment.

\* checkpoint = CheckpointManager(..., resume=True, reset=False)
LiveConstruct(h) ==
  /\ \A o \in Handles : at[o] = "-" /\ pc[o] = "closed"
  /\ Open(h, SourceUri, srcfp, RunChunks, "resume")
  /\ how' = [how EXCEPT ![h] =
               IF pc'[h] = "opened" THEN HowOf("resume", SourceUri, srcfp)
               ELSE "failed"]
  /\ snap' = [snap EXCEPT ![h] =
                IF pc'[h] = "opened" /\ store = "valid"
                  THEN DoneIndices(dbs[cur], FileId(SourceUri))
                  ELSE {}]
  /\ IF pc'[h] = "opened"
       THEN Goes(h, "register") /\ UNCHANGED result
       ELSE Goes(h, "returned") /\ result' = "DatabaseError"
  /\ UNCHANGED <<log, dir, output, text, called, order, cmd, extra>>

\* self.model.transcribe raises
LiveEngineRaises(h) ==
  /\ faults < MaxFaults
  /\ faults' = faults + 1
  /\ at[h] = "got"
  /\ called' = [called EXCEPT ![h] = @ \cup {Claimed(h)}]
  /\ Raises(h, "engine error")
  /\ UNCHANGED <<sto, hist, dir, output, text, order, cmd, plan, inflight, polled, fs, previous>>

\* should_stop() is true at the head of the loop
LiveInterrupted(h) ==
  /\ faults < MaxFaults
  /\ faults' = faults + 1
  /\ at[h] = "claim" /\ pc[h] = "idle"
  /\ Raises(h, "Shutdown requested before processing next chunk")
  /\ UNCHANGED <<sto, hist, dir, output, text, called, order, cmd, plan,
                 inflight, polled, fs, previous>>

\* the process dies
LiveCrash(h) ==
  /\ faults < MaxFaults
  /\ faults' = faults + 1
  /\ at[h] \notin {"-", "returned"}
  /\ Gone(h)
  /\ UNCHANGED <<dir, output, order, cmd, plan, inflight, polled, fs, previous>>

\* the steps a live process takes by itself
LiveStep(h) ==
  \/ LiveConstruct(h)
  \/ RunRegister(h)
  \/ RunClaim(h)
  \/ RunClaimCommit(h)
  \/ RunTranscribe(h)
  \/ RunWriteArtifact(h)
  \/ RunMarkDone(h)
  \/ RunMarkDoneCommit(h)
  \/ RunFinalize(h)
  \/ RunPersist(h)
  \/ RunFinally(h)
  \/ RunExit(h)

LiveNext ==
  \E h \in Runners :
    \/ LiveStep(h)
    \/ LiveEngineRaises(h)
    \/ LiveInterrupted(h)
    \/ LiveCrash(h)

\* a process that can take a step takes one, and the command is run again
\* after a run that ended
SpecLive == Init /\ [][LiveNext]_vars /\ WF_vars(\E h \in Runners : LiveStep(h))

----------------------------------------------------------------------------
\* Runs of the processing loop one after the other, with any arguments of
\* the constructor, where the way the run before ended is remembered.

\* the process exits after transcribe_audio returned
ReentryExit(h) ==
  /\ at[h] = "returned"
  /\ previous' = (IF result = "success" THEN "success" ELSE "failed")
  /\ Gone(h)
  /\ UNCHANGED <<dir, output, order, cmd, plan, inflight, polled, fs, faults>>

\* the process dies
ReentryCrash(h) ==
  /\ at[h] \notin {"-", "returned"}
  /\ previous' = "died"
  /\ Gone(h)
  /\ UNCHANGED <<dir, output, order, cmd, plan, inflight, polled, fs, faults>>

ReentryNext ==
  \E h \in Runners :
    \/ RunConstruct(h)
    \/ RunRegister(h)
    \/ RunClaim(h)
    \/ RunClaimCommit(h)
    \/ RunAudioMissing(h)
    \/ RunTranscribe(h)
    \/ RunEngineRaises(h)
    \/ RunWriteArtifact(h)
    \/ RunMarkDone(h)
    \/ RunMarkDoneCommit(h)
    \/ RunFinalize(h)
    \/ RunPersist(h)
    \/ RunFinally(h)
    \/ ReentryExit(h)
    \/ ReentryCrash(h)

SpecReentry == Init /\ [][ReentryNext]_vars

----------------------------------------------------------------------------
\* Runs of the processing loop with resume whose splitter stops at any
\* segment: a run plans the first n chunks of the source, n in
\* 1..RunChunks, while the store may have more from an earlier run.

\* _transcribe_with_chunking up to CheckpointManager(...): the specs of the
\* segments this run has, and the constructor with resume=True
ShrinkConstruct(h) ==
  /\ \A o \in Handles : at[o] = "-" /\ pc[o] = "closed"
  /\ \E n \in 1..RunChunks :
       /\ chunk_specs' = MakeSpecs(n)
       /\ Open(h, SourceUri, srcfp, n, "resume")
  /\ how' = [how EXCEPT ![h] =
               IF pc'[h] = "opened" THEN HowOf("resume", SourceUri, srcfp)
               ELSE "failed"]
  /\ snap' = [snap EXCEPT ![h] =
                IF pc'[h] = "opened" /\ store = "valid"
                  THEN DoneIndices(dbs[cur], FileId(SourceUri))
                  ELSE {}]
  /\ IF pc'[h] = "opened"
       THEN Goes(h, "register") /\ UNCHANGED result
       ELSE Goes(h, "returned") /\ result' = "DatabaseError"
  /\ UNCHANGED <<log, dir, output, text, called, order, cmd>>
  /\ UNCHANGED <<total_duration, chunk_seconds, num_chunks, extracting,
                 chunk_paths, planning, inflight, polled, fs, faults, previous>>

\* checkpoint.register_chunks(chunk_specs)
ShrinkRegister(h) ==
  /\ at[h] = "register"
  /\ RegisterChunks(h, chunk_specs)
  /\ IF ret'[h].kind = "ok"
       THEN Goes(h, "claim") /\ UNCHANGED result
       ELSE Goes(h, "returned") /\ result' = "OperationalError"
  /\ UNCHANGED <<hist, dir, output, text, called, order, cmd, extra>>

\* chunk_path = chunk_map.get(chunk_index): None for an index this run has
\* no segment of; mark_chunk_failed(..., permanent=True); continue
ShrinkAudioMissing(h) ==
  /\ at[h] = "got"
  /\ Claimed(h) >= Len(chunk_specs)
  /\ RunAudioMissing(h)

\* the engine is called on the segment of the claimed index
ShrinkTranscribe(h) ==
  /\ at[h] = "got"
  /\ Claimed(h) < Len(chunk_specs)
  /\ RunTranscribe(h)

\* _finalize_chunk_transcripts(chunk_dir, len(chunk_specs), output_path,
\* checkpoint) up to the fsync of the output file
ShrinkFinalize(h) ==
  /\ at[h] = "finalize"
  /\ output' = File(Finalize(dir, Len(chunk_specs)))
  /\ Goes(h, "persist")
  /\ UNCHANGED <<sto, hist, dir, text, result, called, order, cmd, extra>>

ShrinkNext ==
  \E h \in Runners :
    \/ ShrinkConstruct(h)
    \/ ShrinkRegister(h)
    \/ RunClaim(h)
    \/ RunClaimCommit(h)
    \/ ShrinkAudioMissing(h)
    \/ ShrinkTranscribe(h)
    \/ RunWriteArtifact(h)
    \/ RunMarkDone(h)
    \/ RunMarkDoneCommit(h)
    \/ ShrinkFinalize(h)
    \/ RunPersist(h)
    \/ RunFinally(h)
    \/ RunExit(h)
    \/ RunCrash(h)

SpecShrink == Init /\ [][ShrinkNext]_vars

----------------------------------------------------------------------------
\* Properties

\* the committed database a handle's connection is on
DbOf(h) == dbs[conn[h]]

\* a run that reused the File record and whose file has no error recorded on
\* any chunk: every chunk was claimed and completed, or not yet touched
CleanResume(h) ==
  /\ pc[h] # "closed"
  /\ how[h] = "reused"
  /\ \A c \in ChunksOf(DbOf(h), file_id[h]) : c.last_error = NULL

\* C1: with the first K chunks done when the store is reopened with the same
\* source URI and fingerprint and resume, the claims of the new handle (each
\* followed by mark_chunk_done) return K, K+1, ... in that order, none of
\* 0..K-1, and stop with nothing after N-1; the handle has the file
\* identifier of the first run.
C1_ResumeSkipsDone ==
  \A h \in Handles :
    CleanResume(h) =>
      LET K == Cardinality(snap[h])
          N == Cardinality(ChunksOf(DbOf(h), file_id[h]))
      IN /\ snap[h] = 0..(K - 1)
         /\ \A j \in 1..Len(log[h]) : log[h][j] = K + j - 1
         /\ ret[h].kind = "none" => K + Len(log[h]) = N
         /\ file_id[h] = FileId(SourceUri)
         /\ \E f \in DbOf(h).files : f.file_id = file_id[h]

\* C1 witness: chunk 0 of 3 was done at the reopen; the claims returned 1, 2
\* and then nothing
C1_Witness ==
  \E h \in Handles :
    /\ CleanResume(h)
    /\ snap[h] = {0}
    /\ log[h] = <<1, 2>>
    /\ ret[h].kind = "none"

\* the step in which handle h's constructor returns h with a reused File record
ReopensReusing(h) == pc[h] = "closed" /\ pc'[h] = "opened" /\ how'[h] = "reused"

\* C2: an open with resume and a matching (source URI, fingerprint) turns
\* every running chunk of the file into retryable_failed with the
\* 'abandoned due to interruption' note, which makes it eligible for a claim,
\* and leaves every other chunk row as it was; a run that reused the record
\* gets nothing from a claim only when no such chunk is left.
C2_RunningIsAbandoned ==
  /\ [][\A h \in Handles :
          ReopensReusing(h) =>
            /\ cur' = cur
            /\ Cardinality(dbs'[cur].chunks) = Cardinality(dbs[cur].chunks)
            /\ \A c \in dbs[cur].chunks :
                 IF c.file_id = file_id'[h] /\ c.status = "running"
                   THEN LET r == [c EXCEPT !.status = "retryable_failed",
                                           !.last_error = Abandoned]
                        IN r \in dbs'[cur].chunks /\
                           r \in EligibleRows(dbs'[cur], file_id'[h])
                   ELSE c \in dbs'[cur].chunks]_vars
  /\ [](\A h \in Handles :
          how[h] = "reused" /\ ret[h].kind = "none" =>
            \A c \in ChunksOf(DbOf(h), file_id[h]) :
              c.status # "retryable_failed")

\* C2 witness: a chunk that was running at the reopen has been abandoned and
\* claimed again by the new handle
C2_Witness ==
  \E h \in Handles :
    /\ how[h] = "reused"
    /\ ret[h].kind = "chunk"
    /\ \E c \in ChunksOf(DbOf(h), file_id[h]) :
         /\ c.chunk_index = ret[h].chunk[1]
         /\ c.status = "running"
         /\ c.last_error = Abandoned

\* a worker holds a chunk from the return of its claim until it has reported
Holds(h, i) == pc[h] # "closed" /\ ret[h].kind = "chunk" /\ ret[h].chunk[1] = i

\* C3: no chunk is held by two live workers at once: a second process that
\* opens the store while the first is working on a chunk is never handed
\* that chunk.
C3_OneOwnerPerChunk ==
  \A h \in Handles, o \in Handles, i \in 0..(MaxChunks - 1) :
    (Holds(h, i) /\ Holds(o, i) /\ conn[h] = conn[o] /\ file_id[h] = file_id[o])
      => h = o

\* a claim_next_chunk of h that raises "database is locked"
ClaimRaisesLocked(h) ==
  pc[h] = "idle" /\ ret[h].kind = "ok" /\ ret'[h].kind = "locked"

\* a claim_next_chunk of h that gets its transaction
ClaimProceeds(h) ==
  pc[h] = "idle" /\ ret[h].kind = "ok" /\
  (pc'[h] = "claiming" \/ ret'[h].kind = "none")

\* C4: two handles never hold the write transaction of one store at once; a
\* claim gets its transaction only when no other handle holds one, and a
\* claim that fails on the lock changes no chunk and hands out no chunk.
C4_ExclusiveTransaction ==
  [][/\ \A h \in Handles, o \in Handles :
          (tx'[h] # <<>> /\ tx'[o] # <<>> /\ conn'[h] = conn'[o]) => h = o
     /\ \A h \in Handles :
          /\ ClaimProceeds(h) => LockHolders(conn[h], h) = {}
          /\ ClaimRaisesLocked(h) =>
               /\ LockHolders(conn[h], h) # {}
               /\ dbs' = dbs
               /\ tx' = tx
               /\ ret'[h].chunk = <<>>
               /\ pc'[h] = "idle"]_vars

\* C4 witness: a claim failed on the lock while the other handle was inside
\* its claim transaction (no chunk of the store has yet been claimed)
C4_Witness ==
  \E h \in Handles, o \in Handles :
    /\ pc[h] = "idle"
    /\ ret[h].kind = "locked"
    /\ pc[o] = "claiming"
    /\ conn[o] = conn[h]
    /\ \A c \in DbOf(h).chunks : c.status = "pending"

\* the chunk the claim is to take: eligible, and of the smallest index
LowestEligible(db, fid) ==
  {c \in db.chunks :
     /\ c.file_id = fid
     /\ c.status \in {"pending", "retryable_failed"}
     /\ \A d \in db.chunks :
          (d.file_id = fid /\ d.status \in {"pending", "retryable_failed"})
            => d.chunk_index >= c.chunk_index}

\* C5: claim_next_chunk takes the eligible (pending or retryable_failed)
\* chunk of the smallest index of its file, sets exactly that row to running
\* and returns its (index, start, end, plan_hash); with no eligible chunk it
\* returns nothing and changes nothing; the change becomes visible only with
\* the commit, so a crash inside the call leaves the store as it was.
C5_ClaimLowestEligible ==
  [][\A h \in Handles :
       /\ (pc[h] = "idle" /\ pc'[h] = "claiming") =>
            \E c \in LowestEligible(DbOf(h), file_id[h]) :
              /\ tx'[h][1].db.chunks =
                   (DbOf(h).chunks \ {c}) \cup {[c EXCEPT !.status = "running"]}
              /\ tx'[h][1].db.files = DbOf(h).files
              /\ tx'[h][1].out.chunk =
                   <<c.chunk_index, c.start_seconds, c.end_seconds, c.plan_hash>>
              /\ dbs' = dbs
       /\ (pc[h] = "claiming" /\ pc'[h] = "idle") =>
            /\ dbs'[conn[h]] = tx[h][1].db
            /\ ret'[h] = tx[h][1].out
            /\ ret'[h].kind = "chunk"
       /\ (pc[h] = "claiming" /\ pc'[h] = "closed") => dbs' = dbs
       /\ (pc[h] = "idle" /\ ret[h].kind = "ok" /\ ret'[h].kind = "none") =>
            /\ LowestEligible(DbOf(h), file_id[h]) = {}
            /\ dbs' = dbs
            /\ tx' = tx]_vars

\* C5 witness: chunk 0 is done and is passed over; the claim returned chunk 1,
\* which is now running
C5_Witness ==
  \E h \in Handles :
    /\ pc[h] = "idle"
    /\ ret[h].kind = "chunk"
    /\ ret[h].chunk = <<1, 1, 2, <<"plan", 1>>>>
    /\ \E c \in ChunksOf(DbOf(h), file_id[h]) :
         c.chunk_index = 0 /\ c.status = "done"
    /\ \E c \in ChunksOf(DbOf(h), file_id[h]) :
         c.chunk_index = 1 /\ c.status = "running"

\* a register_chunks of h that returns: the only call that starts and ends
\* between two calls with nothing to report
Registers(h) ==
  /\ pc[h] \in {"opened", "idle"}
  /\ ret[h].kind = "ok"
  /\ pc'[h] = "idle"
  /\ ret'[h].kind = "ok"

IndicesOf(db, fid) == {c.chunk_index : c \in ChunksOf(db, fid)}

\* C6: register_chunks, called again in the same run or after a reopen,
\* leaves every existing chunk row (status, artifact reference, every field)
\* and every File row as they were, inserts the indices it has not seen as
\* pending rows, and the store holds one chunk row per (file, index).
C6_RegisterIdempotent ==
  [][\A h \in Handles :
       Registers(h) =>
         LET b == dbs[conn[h]]
             a == dbs'[conn[h]]
             fid == file_id[h]
         IN /\ b.chunks \subseteq a.chunks
            /\ a.files = b.files
            /\ \A c \in a.chunks \ b.chunks :
                 /\ c.file_id = fid
                 /\ c.chunk_index \notin IndicesOf(b, fid)
                 /\ c.status = "pending"
                 /\ c.transcript_uri = NULL
                 /\ c.transcript_sha256 = NULL
                 /\ c.last_error = NULL
            /\ \E n \in 1..ResumeChunks :
                 IndicesOf(a, fid) = IndicesOf(b, fid) \cup 0..(n - 1)
            /\ \A c \in a.chunks, d \in a.chunks :
                 (c.file_id = d.file_id /\ c.chunk_index = d.chunk_index)
                   => c = d]_vars

\* C6 witness: after a reopen and a second registration, chunk 0 is still
\* done with its artifact, a failed chunk is still failed, and there is a
\* pending chunk
C6_Witness ==
  \E h \in Handles :
    /\ how[h] = "reused"
    /\ pc[h] = "idle"
    /\ ret[h].kind = "ok"
    /\ log[h] = <<>>
    /\ \E c \in ChunksOf(DbOf(h), file_id[h]) :
         c.chunk_index = 0 /\ c.status = "done" /\ c.transcript_uri = ArtifactUri(0)
    /\ \E c \in ChunksOf(DbOf(h), file_id[h]) : c.status = "permanent_failed"
    /\ \E c \in ChunksOf(DbOf(h), file_id[h]) : c.status = "pending"

\* the chunks of File row f that are done
DoneOf(db, f) == {c \in db.chunks : c.file_id = f.file_id /\ c.status = "done"}

\* C7: in every committed state of the store the completed-chunk counter of
\* a File row equals the number of its chunks whose status is done.
C7_CounterMatchesDone ==
  \A g \in 1..Len(dbs) :
    \A f \in dbs[g].files : f.done_chunks = Cardinality(DoneOf(dbs[g], f))

LegalTransitions ==
  {<<"pending", "running">>, <<"running", "done">>,
   <<"running", "retryable_failed">>, <<"running", "permanent_failed">>,
   <<"retryable_failed", "running">>}

\* C8: without a reset, every change of a chunk's status is one of pending ->
\* running, running -> done, running -> retryable_failed, running ->
\* permanent_failed, retryable_failed -> running; a done or permanent_failed
\* chunk never changes status.
C8_OnlyLegalTransitions ==
  [][\A g \in 1..Len(dbs) :
       \A c \in dbs[g].chunks, d \in dbs'[g].chunks :
         (c.chunk_id = d.chunk_id /\ c.status # d.status)
           => <<c.status, d.status>> \in LegalTransitions]_vars

\* h has registered chunks on the store it opened and has not claimed yet
Registered(h) == pc[h] = "idle" /\ ret[h].kind = "ok" /\ log[h] = <<>>

\* the File row of h counts no chunk, and every chunk of h is pending
AllPending(h) ==
  /\ ChunksOf(DbOf(h), file_id[h]) # {}
  /\ \A c \in ChunksOf(DbOf(h), file_id[h]) : c.status = "pending"
  /\ \A f \in DbOf(h).files : f.file_id = file_id[h] => f.done_chunks = 0

\* C9: an open with reset=true (with either value of resume) of a location
\* that holds a store, whatever the statuses of its chunks, gives a store
\* without chunks and with a completed-count of 0; after register_chunks
\* every chunk is pending, the count is 0, and the first claim returns
\* index 0.
C9_ResetStartsOver ==
  \A h \in Handles :
    how[h] = "reset" =>
      /\ pc[h] = "opened" =>
           /\ DbOf(h).chunks = {}
           /\ \A f \in DbOf(h).files : f.done_chunks = 0
      /\ Registered(h) => AllPending(h)
      /\ log[h] # <<>> => log[h][1] = 0

\* C9 witness: the store held done chunks when it was reset, and the first
\* claim after the reset returned index 0
C9_Witness ==
  \E h \in Handles :
    /\ how[h] = "reset"
    /\ 0 \in snap[h]
    /\ log[h] = <<0>>

\* a call of the constructor by h on a file that is no database
OpensCorrupt(h) ==
  /\ store = "corrupt"
  /\ pc[h] = "closed"
  /\ <<pc[h], ret[h], how[h]>>' # <<pc[h], ret[h], how[h]>>

\* C10: on a file that is no store, an open without reset fails with the
\* corruption error, gives no handle and leaves the file as it is; an open
\* with reset=true succeeds on a store without chunks, where a registered
\* chunk is pending and the first claim returns index 0.
C10_CorruptNeedsReset ==
  /\ [][\A h \in Handles :
          OpensCorrupt(h) =>
            \/ /\ how'[h] = "failed"
               /\ ret'[h].kind = "corrupt"
               /\ pc'[h] = "closed"
               /\ UNCHANGED <<store, cur, dbs, conn, file_id>>
            \/ /\ how'[h] = "recovered"
               /\ ret'[h].kind = "ok"
               /\ pc'[h] = "opened"
               /\ store' = "valid"
               /\ dbs'[conn'[h]].chunks = {}
               /\ \A f \in dbs'[conn'[h]].files : f.done_chunks = 0]_vars
  /\ [](\A h \in Handles :
          how[h] = "recovered" =>
            /\ Registered(h) => AllPending(h)
            /\ log[h] # <<>> => log[h][1] = 0)

\* C10 witness: one open failed on the corrupt file, an open with reset then
\* succeeded, registered chunks and claimed index 0
C10_Witness ==
  \E h \in Handles, o \in Handles :
    /\ how[o] = "failed"
    /\ ret[o].kind = "corrupt"
    /\ pc[o] = "closed"
    /\ how[h] = "recovered"
    /\ log[h] = <<0>>

\* the artifact of chunk row c is in chunk_dir, whole, under the name the
\* row records, with the content whose hash the row records
ArtifactMatches(d, c) ==
  /\ d[c.chunk_index] # NoFile
  /\ c.transcript_uri = ArtifactUri(c.chunk_index)
  /\ c.transcript_sha256 = Sha256(d[c.chunk_index][1])

\* C11: in every state of the runs of the processing loop, a crash at any
\* step included, every chunk the store records as done has its artifact
\* file in chunk_dir with the content of the recorded hash; and when a
\* mark_chunk_done commits, the artifact was already there before the commit.
C11_ArtifactBeforeDone ==
  /\ [](\A g \in 1..Len(dbs) :
          \A c \in dbs[g].chunks : c.status = "done" => ArtifactMatches(dir, c))
  /\ [][\A g \in 1..Len(dbs) :
          \A c \in dbs'[g].chunks :
            (c.status = "done" /\ c \notin dbs[g].chunks)
              => ArtifactMatches(dir, c)]_vars

\* C11 witness: the process died between write_chunk_artifact and
\* mark_chunk_done of chunk 1: chunk 0 is done, chunk 1 has its artifact
\* and is still running
C11_Witness ==
  /\ \A h \in Handles : at[h] = "-"
  /\ store = "valid"
  /\ \E c \in dbs[cur].chunks :
       c.chunk_index = 0 /\ c.status = "done" /\ ArtifactMatches(dir, c)
  /\ \E c \in dbs[cur].chunks :
       c.chunk_index = 1 /\ c.status = "running" /\ dir[1] # NoFile

\* the elements of a set of indices, ascending
RECURSIVE Ascending(_)
Ascending(S) ==
  IF S = {} THEN <<>>
  ELSE LET m == CHOOSE x \in S : \A y \in S : y <= x
       IN Append(Ascending(S \ {m}), m)

\* the non-empty artifact texts of chunk_dir in ascending index order, one
\* newline between two texts
InIndexOrder(d) ==
  LET idx == Ascending({i \in Slots : d[i] # NoFile /\ d[i][1] # <<>>})
  IN Join([k \in 1..Len(idx) |-> d[idx[k]][1]])

\* C12: whatever the order in which the artifacts were written and however
\* often a chunk was redone, finalize writes the texts of the artifacts in
\* ascending chunk-index order, separated by newlines: the output is a
\* function of the set of artifacts, and artifacts 0, 1, 2 with the texts
\* a, b, c give a, newline, b, newline, c.
C12_FinalizeByIndex ==
  [][output' # output =>
       /\ output' = File(InIndexOrder(dir))
       /\ (/\ dir[0] = File(<<"a">>) /\ dir[1] = File(<<"b">>)
           /\ dir[2] = File(<<"c">>)
           /\ \A i \in Slots \ {0, 1, 2} : dir[i] = NoFile)
            => output' = File(<<"a", "\n", "b", "\n", "c">>)]_vars

\* C12 witness: the artifacts were written in the order 2, 0, 1 and the
\* output is a, newline, b, newline, c
C12_Witness ==
  /\ order = <<2, 0, 1>>
  /\ output = File(<<"a", "\n", "b", "\n", "c">>)

\* the text whose hash the store records for chunk i of file fid
RecordedText(b, fid, i) ==
  CHOOSE t \in {Strip(raw) : raw \in RawTexts(i)} :
    \E c \in ChunksOf(b, fid) :
      c.chunk_index = i /\ c.transcript_sha256 = Sha256(t)

\* the recorded texts of chunks 0..total-1, laid out as a chunk_dir
RecordedDir(b, fid, total) ==
  [i \in Slots |-> IF i < total THEN File(RecordedText(b, fid, i)) ELSE NoFile]

AllDone(b, fid, total) ==
  \A i \in 0..(total - 1) :
    \E c \in ChunksOf(b, fid) : c.chunk_index = i /\ c.status = "done"

\* h resumed a store in which exactly chunks 0..K-1 were done and no chunk
\* has failed for good
ResumedAfterPrefix(h) ==
  /\ how[h] = "reused"
  /\ pc[h] # "closed"
  /\ snap[h] = 0..(Cardinality(snap[h]) - 1)
  /\ \A c \in ChunksOf(DbOf(h), file_id[h]) : c.status # "permanent_failed"

Contributes(i, t) == \E k \in 1..Len(t) : t[k] = Word(i)

\* C14: when finalize writes the final transcript, the text of chunk i is in
\* it only if the store records chunk i of the current file as done.
C14_OnlyDoneContribute ==
  [][\A h \in Handles :
       (at[h] = "finalize" /\ at'[h] = "persist") =>
         \A i \in 0..(RunChunks - 1) :
           Contributes(i, output'[1]) =>
             \E c \in ChunksOf(DbOf(h), file_id[h]) :
               c.chunk_index = i /\ c.status = "done"]_vars

\* C15: the loop never starts the transcription of a chunk that a claim
\* returned after shutdown had been requested: should_stop() is consulted
\* before the claim and again when the claim has returned.
C15_NoWorkAfterRequest == ~(main = "transcribing" /\ late)

\* C16: once shutdown_requested is true and a reason is recorded, no later
\* signal and no later poll result changes the reason.
C16_ReasonSetOnce ==
  [][(shutdown_requested /\ reason # "None") => reason' = reason]_vars

\* C17: a run in which a should_stop() check returned true, wherever the
\* request arrived, exits with status 2.
C17_InterruptedExitsTwo == (main = "exited" /\ halted) => exit_status = 2

\* the row of chunk i of the file of h, after the step
RowAfter(h, i) ==
  CHOOSE c \in ChunksOf(dbs'[conn[h]], file_id[h]) : c.chunk_index = i

\* C18: when the engine fails on a claimed chunk, the failure is recorded on
\* the chunk (retryable_failed or permanent_failed, with the error text) and
\* the loop goes on to the next claim.
C18_EngineFailureRecorded ==
  [][\A h \in Handles :
       (at[h] = "got" /\ result' = "engine error") =>
         /\ RowAfter(h, Claimed(h)).status \in {"retryable_failed", "permanent_failed"}
         /\ RowAfter(h, Claimed(h)).last_error # NULL
         /\ at'[h] = "claim"]_vars

\* the step of h that finds the audio of its claimed chunk missing: it
\* leaves the claim behind without a call of the engine
FindsAudioMissing(h) ==
  /\ at[h] = "got"
  /\ at'[h] \notin {"got", "-"}
  /\ Claimed(h) \notin called'[h]

\* C19: when the audio of a claimed chunk is missing, the chunk becomes
\* permanent_failed with the error message, nothing else in the store
\* changes, the engine is not called on it, and the loop goes to the next
\* claim; the loop reaches reassembly only when no chunk is eligible any
\* more.
C19_MissingAudioIsPermanent ==
  /\ [][\A h \in Handles :
          FindsAudioMissing(h) =>
            LET b == dbs[conn[h]]
                a == dbs'[conn[h]]
                cid == ChunkId(file_id[h], Claimed(h))
            IN /\ RowAfter(h, Claimed(h)).status = "permanent_failed"
               /\ RowAfter(h, Claimed(h)).last_error = AudioMissing(Claimed(h))
               /\ {c \in a.chunks : c.chunk_id # cid} = {c \in b.chunks : c.chunk_id # cid}
               /\ a.files = b.files
               /\ at'[h] = "claim"
               /\ UNCHANGED <<result, dir, output>>]_vars
  /\ [](\A h \in Handles :
          /\ at[h] = "finalize" => SelectNext(DbOf(h), file_id[h]) = {}
          /\ pc[h] # "closed" =>
               \A c \in ChunksOf(DbOf(h), file_id[h]) :
                 (/\ c.status = "permanent_failed"
                  /\ \E k \in 1..Len(log[h]) : log[h][k] = c.chunk_index)
                   => c.chunk_index \notin called[h])

\* C19 witness: chunk 0 had no audio and is permanent_failed, the engine was
\* called on chunk 1 only, and reassembly wrote the text of chunk 1
C19_Witness ==
  \E h \in Handles :
    /\ at[h] = "persist"
    /\ log[h] = <<0, 1>>
    /\ called[h] = {1}
    /\ \E c \in ChunksOf(DbOf(h), file_id[h]) :
         /\ c.chunk_index = 0
         /\ c.status = "permanent_failed"
         /\ c.last_error = AudioMissing(0)
    /\ \E c \in ChunksOf(DbOf(h), file_id[h]) :
         c.chunk_index = 1 /\ c.status = "done"
    /\ output = File(<<"b">>)

\* a mark_chunk_failed of h on the chunk it claimed, returning
MarksFailed(h) ==
  /\ pc[h] = "idle" /\ ret[h].kind = "chunk"
  /\ pc'[h] = "idle" /\ ret'[h].kind = "ok"

\* a claim_next_chunk of h that selects a row
Selects(h) == pc[h] = "idle" /\ pc'[h] = "claiming"

FailedIndices(b, fid, st) ==
  {c.chunk_index : c \in {d \in ChunksOf(b, fid) : d.status = st}}

\* C20: mark_chunk_failed with permanent=false leaves the chunk
\* retryable_failed, with permanent=true permanent_failed, in both cases
\* with the error text stored and the completed-count and every other chunk
\* unchanged.  A retryable_failed chunk is returned by a later claim in
\* index order: no claim returns nothing or a higher index while it waits.
\* A permanent_failed chunk keeps its status and is selected by no claim,
\* also after close and reopen with resume.
C20_RetryableVersusPermanent ==
  [][\A h \in Handles :
       /\ MarksFailed(h) =>
            LET b == dbs[conn[h]]
                a == dbs'[conn[h]]
                cid == ChunkId(file_id[h], Claimed(h))
                row == RowAfter(h, Claimed(h))
            IN /\ \/ row.status = "retryable_failed" /\ row.last_error = EngineError
                  \/ /\ row.status = "permanent_failed"
                     /\ row.last_error = AudioMissing(Claimed(h))
               /\ {c \in a.chunks : c.chunk_id # cid} = {c \in b.chunks : c.chunk_id # cid}
               /\ a.files = b.files
       /\ Selects(h) =>
            LET i == tx'[h][1].out.chunk[1] IN
            /\ i \notin FailedIndices(DbOf(h), file_id[h], "permanent_failed")
            /\ \A j \in FailedIndices(DbOf(h), file_id[h], "retryable_failed") : i <= j
       /\ (pc[h] = "idle" /\ ret'[h].kind = "none" /\ ret[h].kind # "none") =>
            FailedIndices(DbOf(h), file_id[h], "retryable_failed") = {}
       /\ \A g \in 1..Len(dbs) :
            \A c \in dbs[g].chunks, d \in dbs'[g].chunks :
              (c.chunk_id = d.chunk_id /\ c.status = "permanent_failed")
                => d.status = "permanent_failed"]_vars

\* C20 witness: after a reopen with resume the first claim returned chunk 1,
\* which had failed with a retryable error, and passed over chunk 0, which
\* had failed for good
C20_Witness ==
  \E h \in Handles :
    /\ how[h] = "reused"
    /\ log[h] = <<1>>
    /\ pc[h] = "idle"
    /\ \E c \in ChunksOf(DbOf(h), file_id[h]) :
         /\ c.chunk_index = 0
         /\ c.status = "permanent_failed"
         /\ c.last_error = AudioMissing(0)
    /\ \E c \in ChunksOf(DbOf(h), file_id[h]) :
         /\ c.chunk_index = 1
         /\ c.status = "running"
         /\ c.last_error = EngineError

\* the step in which handle h's constructor returns h
Constructs(h) == pc[h] = "closed" /\ pc'[h] = "opened"

\* the File records of the store with the pair (uri, fp)
PairRows(db, uri, fp) ==
  {f \in db.files : f.source_uri = uri /\ f.fingerprint = fp}

\* no two File records of a store have the same (source URI, fingerprint)
OneRowPerPair ==
  \A g \in 1..Len(dbs) : \A f1 \in dbs[g].files, f2 \in dbs[g].files :
    (f1.source_uri = f2.source_uri /\ f1.fingerprint = f2.fingerprint)
      => f1 = f2

\* an open whose pair differs from the pair of a File record of the store
\* gets neither that record's identifier nor its chunk records
DifferentPairsApart(h) ==
  (Constructs(h) /\ store = "valid" /\ cur' = cur) =>
    \A f \in dbs[cur].files :
      (f.source_uri # SourceUri \/ f.fingerprint # srcfp) =>
        /\ file_id'[h] # f.file_id
        /\ ChunksOf(dbs[cur], f.file_id) \cap ChunksOf(dbs'[cur], file_id'[h]) = {}

\* an open with resume and a matching pair has the identifier of the
\* matching record, and the chunk records of that identifier are kept
MatchingPairReused(h) ==
  (Constructs(h) /\ how'[h] = "reused") =>
    /\ \E f \in PairRows(dbs[cur], SourceUri, srcfp) : file_id'[h] = f.file_id
    /\ \A c \in ChunksOf(dbs[cur], file_id'[h]) :
         \E d \in ChunksOf(dbs'[cur], file_id'[h]) : d.chunk_id = c.chunk_id

\* C21: (source URI, fingerprint) determines the File record: a store never
\* holds two File records with one pair, an open with a pair different from
\* a stored record's pair never shares that record and its chunks, and an
\* open with resume and a matching pair reuses the identifier and the chunks.
C21_PairDeterminesFile ==
  /\ []OneRowPerPair
  /\ [][\A h \in Handles : DifferentPairsApart(h) /\ MatchingPairReused(h)]_vars

\* the File record of handle h's file
FileRowOf(h) == CHOOSE f \in DbOf(h).files : f.file_id = file_id[h]

\* a run whose constructor was called with resume=False and reset=False on
\* a store that had the File record of the source (the runs of the
\* processing loop never change the fingerprint, so every store has it)
OpenedWithoutResume(h) == pc[h] # "closed" /\ how[h] = "fresh"

\* C22: an open with resume=false and reset=false of a store that has the
\* File record of the source does not resume: when the constructor returns,
\* the record has completed-count 0 and no final output location or hash,
\* and the first claim after register_chunks returns chunk 0.
C22_NoResumeStartsOver ==
  \A h \in Runners :
    OpenedWithoutResume(h) =>
      /\ at[h] = "register" =>
           /\ FileRowOf(h).done_chunks = 0
           /\ FileRowOf(h).final_output_uri = NULL
           /\ FileRowOf(h).final_output_sha256 = NULL
      /\ log[h] # <<>> => log[h][1] = 0

\* C23: for a total duration D >= 0 and a chunk length L > 0 the chunk plan
\* has exactly ceil(D / L) chunks with the indices 0..count-1, start_i = i*L
\* and end_i = min(D, (i+1)*L); consecutive chunks abut, every chunk has
\* start_i < end_i, and the last chunk ends at D.
C23_PlanCoversDuration ==
  planning = "planned" =>
    LET n == Len(chunk_specs)
        D == total_duration
        L == chunk_seconds
    IN /\ n = Ceil(D, L)
       /\ \A k \in 1..n :
            /\ chunk_specs[k].index = k - 1
            /\ chunk_specs[k].start_seconds = (k - 1) * L
            /\ chunk_specs[k].end_seconds = Min(D, k * L)
            /\ chunk_specs[k].start_seconds < chunk_specs[k].end_seconds
            /\ k < n => chunk_specs[k].end_seconds = chunk_specs[k + 1].start_seconds
       /\ n > 0 => chunk_specs[n].end_seconds = D

\* the engine is running on the chunk that h claimed, or has returned and
\* the artifact is not yet written
EngineRuns(h) == at[h] \in {"got", "write"}

\* C24: no store transaction is open while the transcription engine runs:
\* the claim is committed (the chunk is running in the committed store)
\* before the engine is invoked, any other handle finds the write lock of
\* the store free of this worker, and the transaction of mark_chunk_done is
\* open only once the artifact of the chunk holds the text.
C24_EngineOutsideTransaction ==
  \A h \in Runners :
    /\ EngineRuns(h) =>
         /\ tx[h] = <<>>
         /\ \A o \in Handles \ {h} : h \notin LockHolders(conn[h], o)
         /\ \E c \in ChunksOf(DbOf(h), file_id[h]) :
              c.chunk_index = Claimed(h) /\ c.status = "running"
    /\ pc[h] = "marking" => dir[Claimed(h)] = File(text[h])

\* C24 witness: the engine has returned the text of chunk 1, claimed after
\* chunk 0 was marked done, and no transaction is open
C24_Witness ==
  \E h \in Runners :
    /\ at[h] = "write"
    /\ log[h] = <<0, 1>>
    /\ text[h] = <<"b">>
    /\ tx[h] = <<>>
    /\ \A o \in Handles \ {h} : LockFree(conn[h], o)

\* transcribe_audio of h has returned one of the errors raised on
\* should_stop() in the loop; the store is closed by then
StoppedOnRequest(h) == at[h] = "returned" /\ result \in StopErrors

\* the chunk records of the source in the store at db_path
StoredChunks == ChunksOf(dbs[cur], FileId(SourceUri))

StatusOf(i) == (CHOOSE c \in StoredChunks : c.chunk_index = i).status

\* C25: cancellation is cooperative and chunk-granular: when the loop has
\* stopped on a shutdown request, the chunk the engine was running on when
\* the request arrived has its artifact and is done, every chunk that was
\* done when the run opened the store or that the run transcribed is done,
\* and no chunk this run claimed is left running in the closed store.
C25_InFlightChunkCompletes ==
  \A h \in Runners :
    StoppedOnRequest(h) =>
      /\ pc[h] = "closed"
      /\ \A i \in inflight :
           /\ dir[i] # NoFile
           /\ \E c \in StoredChunks :
                /\ c.chunk_index = i
                /\ c.status = "done"
                /\ c.transcript_sha256 = Sha256(dir[i][1])
      /\ \A i \in called[h] : StatusOf(i) = "done"
      /\ how[h] \in {"reused", "fresh"} =>
           snap[h] \subseteq DoneIndices(dbs[cur], FileId(SourceUri))
      /\ \A j \in 1..Len(log[h]) : StatusOf(log[h][j]) # "running"

\* C25 witness: the request arrived while the engine ran on chunk 0; chunk 0
\* is done with its artifact, the loop stopped before claiming chunk 1, which
\* is pending
C25_Witness ==
  \E h \in Runners :
    /\ StoppedOnRequest(h)
    /\ inflight = {0}
    /\ log[h] = <<0>>
    /\ dir[0] = File(<<"a">>)
    /\ StatusOf(0) = "done"
    /\ StatusOf(1) = "pending"

\* the step in which one turn of the poll ends
PollTurnEnds == poller = "fetch" /\ poller' # "fetch"

\* C26: a failure of the preemption poll (the token fetch or the
\* interruption query raising) never sets shutdown_requested and never ends
\* the poll loop, and neither does a 'not found' response; the flag is set
\* only by a termination signal or after a positive response, and the loop
\* is over only with the flag set.
C26_PollFailureSwallowed ==
  /\ [][/\ (PollTurnEnds /\ polled' \in PollFailures \cup {"not found"}) =>
             /\ shutdown_requested' = shutdown_requested
             /\ reason' = reason
             /\ poller' = "test"
        /\ (~shutdown_requested /\ shutdown_requested') =>
             \/ signals' = signals + 1
             \/ poller = "flag" /\ polled = "notice"]_vars
  /\ [](poller = "done" => shutdown_requested)

\* C26 witness: the interruption query raised, nothing was requested, and
\* the loop is in its next turn
C26_Witness ==
  /\ polled = "query failed"
  /\ poller = "fetch"
  /\ ~shutdown_requested
  /\ reason = "None"

----------------------------------------------------------------------------
\* chunk_NNNN.txt is absent or holds a whole text, in the running system and
\* on stable storage
WholeArtifacts(d) ==
  \A i \in Slots : d[i] = NoFile \/ d[i][1] \in ArtifactTexts(i)

\* a step changes chunk_NNNN.txt only to the whole text of the running call
\* for that index, or (power loss) back to what stable storage had
ChangesToWhole ==
  \A i \in Slots :
    dir'[i] # dir[i] =>
      \/ writing.at # "-" /\ writing.index = i /\ dir'[i] = File(writing.text)
      \/ dir'[i] = stable[i]

\* a call that returns gives the final name of its index and the digest of
\* what that file holds
ReturnsStored ==
  (returned' # returned /\ returned' # <<>>) =>
    /\ writing.at # "-"
    /\ dir'[writing.index] # NoFile
    /\ returned' = <<ArtifactUri(writing.index), Sha256(dir'[writing.index][1])>>
    /\ ChunkPath(writing.index) \in synced'
    /\ stable'[writing.index] = dir'[writing.index]

\* C27: write_chunk_artifact is crash-atomic: whatever step the process dies
\* or the power fails at, chunk_NNNN.txt is absent, or holds the whole text
\* of an earlier write, or the whole new text, never a part of one; a call
\* that returns gives the final name of the index and the digest of exactly
\* what is stored there.
C27_ArtifactCrashAtomic ==
  /\ [](WholeArtifacts(dir) /\ WholeArtifacts(stable))
  /\ [][ChangesToWhole /\ ReturnsStored]_vars

\* the power failed in the middle of a second write of index 0: the earlier
\* whole text is in chunk_0000.txt and another call has since returned
C27_Witness ==
  /\ dir[0] = File(<<"a", "!">>)
  /\ writing.at = "opened" /\ writing.index = 0
  /\ writing.text = <<"a", "?">>
  /\ tmp[0] = File(<<"a">>)
  /\ stable[1] = File(<<"b", "?">>)

----------------------------------------------------------------------------
\* while _finalize_chunk_transcripts runs, output_path is what it was before
\* the call (absent included) or the whole combined text
OutputWhole ==
  finalizing.at # "-" =>
    output \in {finalizing.before, File(finalizing.combined)}

\* the digest of the File record is set only when output_path holds the
\* combined text of that digest and its data is on stable storage
RecordedWhenDurable ==
  recorded' # recorded =>
    /\ OutputPath \in synced
    /\ output = File(finalizing.combined)
    /\ recorded' = Sha256(finalizing.combined)

\* C28: _finalize_chunk_transcripts writes output_path as chunk artifacts
\* are written (temporary file, fsync, rename): whatever step it is stopped
\* at, output_path is absent or unchanged or holds the whole combined text,
\* never a truncated or partial one, and the digest of the File record is
\* set only after the output is on stable storage.
C28_FinalizeCrashAtomic ==
  /\ []OutputWhole
  /\ [][RecordedWhenDurable]_vars

\* C28, second half alone: the digest is recorded after the fsync
C28_DigestAfterFsync == [][RecordedWhenDurable]_vars

\* a second finalize has emptied an output_path that held a transcript
C28_Truncated ==
  ~(/\ finalizing.at = "opened"
    /\ finalizing.before = File(<<"a">>)
    /\ finalizing.combined = <<"a", "\n", "b">>
    /\ output = File(<<>>))

----------------------------------------------------------------------------
\* the pieces of t between its newlines: one piece more than newlines
RECURSIVE SplitLines(_)
SplitLines(t) ==
  IF \A k \in 1..Len(t) : t[k] # "\n" THEN <<t>>
  ELSE LET n == CHOOSE k \in 1..Len(t) :
                  t[k] = "\n" /\ \A j \in 1..(k - 1) : t[j] # "\n"
       IN <<SubSeq(t, 1, n - 1)>> \o SplitLines(SubSeq(t, n + 1, Len(t)))

\* the trimmed texts of the artifacts of the indices in S, ascending
TrimmedOf(d, S) ==
  LET idx == Ascending(S) IN [k \in 1..Len(idx) |-> Strip(d[idx[k]][1])]

\* t is the given contributions with exactly one newline between two
JoinsExactly(t, contributions) ==
  IF contributions = <<>> THEN t = <<>> ELSE SplitLines(t) = contributions

PresentArtifacts(d, total) == {i \in 0..(total - 1) : d[i] # NoFile}

NonEmptyArtifacts(d, total) ==
  {i \in PresentArtifacts(d, total) : Strip(d[i][1]) # <<>>}

\* persist_final_output has committed: the File record of the handle has
\* the location and the digest of the output, its completed-count and
\* every chunk record are as before
RecordsOutputOnly(h) ==
  (at[h] = "persist" /\ at'[h] # "persist" /\ ret'[h].kind = "ok") =>
    /\ DbOf(h).chunks = dbs'[conn[h]].chunks
    /\ \A f \in dbs'[conn[h]].files :
         f.file_id = file_id[h] =>
           /\ f.final_output_uri = OutputUri
           /\ f.final_output_sha256 = Sha256(output[1])
           /\ \E e \in DbOf(h).files :
                e.file_id = f.file_id /\ e.done_chunks = f.done_chunks
    /\ \A f \in dbs'[conn[h]].files :
         f.file_id # file_id[h] => f \in DbOf(h).files

\* C29 as stated: finalize reads the artifacts of 0..total_chunks-1 in
\* order, skips a missing one without failing, and every artifact that is
\* present contributes its trimmed text, also when that text is empty, with
\* exactly one newline between two contributions; the combined text is
\* written to output_path and its location and hash are recorded on the File
\* record without changing any chunk record or the completed-count.
C29_EveryArtifactContributes ==
  [][\A h \in Handles :
       /\ (at[h] = "finalize" /\ at'[h] = "persist") =>
            /\ output' # NoFile
            /\ JoinsExactly(output'[1],
                            TrimmedOf(dir, PresentArtifacts(dir, RunChunks)))
       /\ RecordsOutputOnly(h)]_vars

\* C29, amended: as stated, but an artifact contributes only when its
\* trimmed text is not empty; an empty one adds neither text nor newline.
C29_NonEmptyArtifactsContribute ==
  [][\A h \in Handles :
       /\ (at[h] = "finalize" /\ at'[h] = "persist") =>
            /\ output' # NoFile
            /\ JoinsExactly(output'[1],
                            TrimmedOf(dir, NonEmptyArtifacts(dir, RunChunks)))
       /\ RecordsOutputOnly(h)]_vars

\* C29 witness: chunk 0 has no artifact (its audio was missing), chunk 1
\* has the text b; the output is b and the File record has its digest
C29_Witness ==
  \E h \in Handles :
    /\ at[h] = "finally"
    /\ result = "success"
    /\ dir[0] = NoFile
    /\ dir[1] = File(<<"b">>)
    /\ output = File(<<"b">>)
    /\ \E f \in DbOf(h).files :
         /\ f.file_id = file_id[h]
         /\ f.final_output_sha256 = Sha256(<<"b">>)

\* an empty artifact between none: chunk 0 is silent, chunk 1 has the text b
C29_EmptyArtifactSkipped ==
  ~(\E h \in Handles :
      /\ at[h] = "persist"
      /\ dir[0] = File(<<>>)
      /\ dir[1] = File(<<"b">>)
      /\ output = File(<<"b">>))

----------------------------------------------------------------------------
\* the stored rows of the handle's file that the specs of this run differ
\* from, in boundaries or plan hash
Replanned(h) ==
  {c \in ChunksOf(DbOf(h), file_id[h]) :
     /\ c.chunk_index < Len(chunk_specs)
     /\ LET s == chunk_specs[c.chunk_index + 1]
        IN \/ s.plan_hash # c.plan_hash
           \/ s.end_seconds # c.end_seconds
           \/ s.start_seconds # c.start_seconds}

\* register_chunks returns normally and every row that was there is there
\* unchanged
RegisterKeepsRows(h) ==
  (pc[h] = "opened" /\ pc'[h] # "opened" /\ pc'[h] # "closed") =>
    /\ ret'[h].kind = "ok"
    /\ DbOf(h).chunks \subseteq dbs'[conn[h]].chunks

\* a claim returns the index, boundaries and plan hash of a stored row that
\* was not done, neither now nor when the store was opened
ClaimReturnsStored(h) ==
  (pc[h] = "claiming" /\ pc'[h] = "idle") =>
    /\ ret'[h].kind = "chunk"
    /\ ret'[h].chunk[1] \notin snap[h]
    /\ \E c \in ChunksOf(DbOf(h), file_id[h]) :
         /\ c.status # "done"
         /\ ret'[h].chunk = <<c.chunk_index, c.start_seconds, c.end_seconds,
                              c.plan_hash>>

\* C30: a resume with specs whose plan hash differs from the stored one is
\* neither rejected nor reset: the open reuses the File record, no call on
\* a valid store fails, register_chunks leaves plan_hash, boundaries and status of every
\* existing chunk as stored, chunks already done are not claimed again, and
\* claim_next_chunk returns the stored boundaries and plan hash.
C30_StoredPlanKept ==
  /\ [](\A h \in Handles :
          /\ store = "valid" => ret[h].kind \notin {"locked", "corrupt"}
          /\ (pc[h] # "closed" /\ snap[h] # {}) => how[h] = "reused")
  /\ [][\A h \in Handles : RegisterKeepsRows(h) /\ ClaimReturnsStored(h)]_vars

\* C30 witness: chunk 0 was done with chunks of 2 seconds; the run with
\* chunks of 3 seconds has registered its specs and claimed: it got chunk 1
\* with the stored boundaries 2..4, not 3..5 of its own plan
C30_Witness ==
  \E h \in Handles :
    /\ pc[h] = "idle"
    /\ chunk_seconds = MaxChunkSeconds + 1
    /\ snap[h] = {0}
    /\ ret[h].kind = "chunk"
    /\ ret[h].chunk[1] = 1
    /\ ret[h].chunk[2] = MaxChunkSeconds
    /\ ret[h].chunk[2] # chunk_specs[2].start_seconds
    /\ ret[h].chunk[4] # chunk_specs[2].plan_hash
    /\ \E c \in Replanned(h) : c.chunk_index = 0 /\ c.status = "done"

----------------------------------------------------------------------------
\* every chunk of the source is done, the final transcript is written and
\* the File record has its location and digest
Completed ==
  /\ store = "valid"
  /\ output # NoFile
  /\ DoneIndices(dbs[cur], FileId(SourceUri)) = 0..(RunChunks - 1)
  /\ \E f \in dbs[cur].files :
       /\ f.file_id = FileId(SourceUri)
       /\ f.final_output_uri = OutputUri
       /\ f.final_output_sha256 = Sha256(output[1])

\* the indices a run has claimed so far
ClaimedSoFar(h) == {log[h][k] : k \in 1..Len(log[h])}

\* a run claims no chunk that was done when it opened the store, and when
\* its loop ends it has claimed every other chunk
ClaimsTheUnfinished ==
  \A h \in Handles :
    /\ ClaimedSoFar(h) \cap snap[h] = {}
    /\ at[h] = "finalize" => ClaimedSoFar(h) = (0..(RunChunks - 1)) \ snap[h]

\* C31: with one worker at a time, finitely many crashes, interruptions and
\* engine failures, each followed by a run with resume on the same source
\* and fingerprint, and every segment extracted, every chunk is eventually
\* done and the final transcript eventually written and recorded on the File
\* record (on a store that is a database); each run claims exactly the
\* chunks that were not done when it started.
C31_EventuallyCompleted ==
  /\ (store = "corrupt" \/ <>Completed)
  /\ []ClaimsTheUnfinished

\* C31 witness: the first run died with chunk 0 done and chunk 1 running, a
\* second run was interrupted, and the third has claimed chunk 1 alone and
\* completed the file
C31_Witness ==
  /\ Completed
  /\ faults = MaxFaults
  /\ \E h \in Handles :
       /\ how[h] = "reused"
       /\ snap[h] = {0}
       /\ log[h] = <<1>>
       /\ result = "success"

\* C31, its first half alone
C31_Eventually == store = "corrupt" \/ <>Completed

----------------------------------------------------------------------------
\* the run of h reused the File record and found every chunk done
AllDoneAtOpen(h) ==
  /\ at[h] # "-"
  /\ pc[h] # "closed"
  /\ how[h] = "reused"
  /\ snap[h] = 0..(RunChunks - 1)

\* the completed-count of the File record of h
DoneCount(db, fid) == {f.done_chunks : f \in {e \in db.files : e.file_id = fid}}

\* a step of such a run leaves the chunk records and the completed-count as
\* they are, and its finalize writes what output_path already held
ReentryChangesNothing(h) ==
  AllDoneAtOpen(h) =>
    /\ pc'[h] # "closed" =>
         /\ dbs'[conn[h]].chunks = DbOf(h).chunks
         /\ DoneCount(dbs'[conn[h]], file_id[h]) = DoneCount(DbOf(h), file_id[h])
    /\ dir' = dir
    /\ (at[h] = "finalize" /\ at'[h] = "persist" /\ previous = "success") =>
         output' = output

----------------------------------------------------------------------------
\* the run of h is inside its while loop
InLoop(h) == at[h] \in {"claim", "got", "write", "mark"}

\* no index occurs twice in the claims of a run
ClaimsDistinct(h) ==
  \A j, k \in 1..Len(log[h]) : log[h][j] = log[h][k] => j = k

\* an iteration that goes back to the head of the loop leaves the chunk it
\* claimed done or permanent_failed
IterationSettlesChunk(h) ==
  (at[h] \in {"got", "mark"} /\ at'[h] = "claim") =>
    \E c \in ChunksOf(dbs'[conn[h]], file_id[h]) :
      /\ c.chunk_index = log[h][Len(log[h])]
      /\ c.status \in {"done", "permanent_failed"}

\* C33: a run of the processing loop over a store with N chunk records of
\* the file terminates when the calls of the engine return: an iteration
\* leaves the loop or claims a chunk it then leaves done or
\* permanent_failed, a run makes at most N claims and claims no chunk
\* twice, and a run inside the loop eventually is outside it.
C33_LoopTerminates ==
  /\ [](\A h \in Handles :
          pc[h] # "closed" =>
            /\ ClaimsDistinct(h)
            /\ Len(log[h]) <= Cardinality(ChunksOf(DbOf(h), file_id[h])))
  /\ [][\A h \in Handles : IterationSettlesChunk(h)]_vars
  /\ \A h \in Runners : InLoop(h) ~> ~InLoop(h)

\* C33 witness: a run has claimed both chunks, left 0 permanent_failed and
\* 1 done, and its third claim returned nothing
C33_Witness ==
  \E h \in Handles :
    /\ at[h] = "finalize"
    /\ log[h] = <<0, 1>>
    /\ \E c \in ChunksOf(DbOf(h), file_id[h]) :
         c.chunk_index = 0 /\ c.status = "permanent_failed"
    /\ \E c \in ChunksOf(DbOf(h), file_id[h]) :
         c.chunk_index = 1 /\ c.status = "done"

----------------------------------------------------------------------------
\* the step in which the constructor returns a handle
OpensStore(h) == pc[h] = "closed" /\ pc'[h] = "opened"

\* C34: after any successful open of the store, with whatever resume, reset
\* and fingerprint match, no chunk of the opened file is left in status
\* running on behalf of a process that has died: every chunk that was
\* running before the open can be claimed after it.
C34_NoRunningAfterOpen ==
  [][\A h \in Handles :
       (OpensStore(h) /\ Alone(h)) =>
         \A c \in ChunksOf(dbs'[cur'], file_id'[h]) : c.status # "running"]_vars

\* C34, for the opens that reuse the File record
C34_HoldsWhenReused ==
  [][\A h \in Handles :
       (OpensStore(h) /\ Alone(h) /\ how'[h] = "reused") =>
         \A c \in ChunksOf(dbs'[cur'], file_id'[h]) : c.status # "running"]_vars

----------------------------------------------------------------------------
\* the constructor returns a handle on a store that has the source URI with
\* another fingerprint than the one given (the source file has changed)
OpensChangedSource(h) ==
  /\ OpensStore(h)
  /\ store = "valid" /\ cur' = cur
  /\ \E f \in dbs[cur].files :
       f.source_uri = SourceUri /\ f.fingerprint # srcfp

\* in db, every chunk of the file can be claimed and the completed-count of
\* the File record is 0
NothingCompleted(db, fid) ==
  /\ ChunksOf(db, fid) = EligibleRows(db, fid)
  /\ \A f \in db.files : f.file_id = fid => f.done_chunks = 0

\* C35: when the source URI is opened with a fingerprint different from the
\* stored one, chunks completed for the old content do not count for the
\* new: after register_chunks every chunk of the file is claimable and the
\* completed-count is 0.
C35_ChangedSourceStartsOver ==
  [][\A h \in Handles :
       OpensChangedSource(h) =>
         \A n \in 1..ResumeChunks :
           NothingCompleted(RegisterAll(dbs'[cur], file_id'[h], MakeSpecs(n)),
                            file_id'[h])]_vars

\* chunk 0 was completed for the old content and is still done, and counted,
\* after the open with the new fingerprint and resume
C35_OldWorkCounted ==
  ~(\E h \in Handles :
      /\ pc[h] = "idle" /\ ret[h].kind = "ok" /\ log[h] = <<>>
      /\ how[h] = "fresh"
      /\ srcfp = "f2"
      /\ snap[h] = {0}
      /\ \E f \in DbOf(h).files : f.fingerprint = "f2" /\ f.done_chunks = 1
      /\ \E c \in ChunksOf(DbOf(h), file_id[h]) :
           c.chunk_index = 0 /\ c.status = "done")

----------------------------------------------------------------------------
\* C37: every chunk with index i is transcribed from the segment the
\* splitter cut for the time range that starts at i * chunk_seconds: the
\* audio path the loop has for index i is the segment produced for index i,
\* for every outcome of the splitter (a segment dropped as too small, the
\* extraction stopped at the first failure).
C37_IndexHasItsSegment ==
  planning = "planned" =>
    \A idx \in DOMAIN chunk_map :
      /\ chunk_map[idx] = idx
      /\ chunk_specs[idx + 1].start_seconds = chunk_map[idx] * chunk_seconds

\* C37 holds when no segment before the last kept one was dropped
C37_HoldsWithoutDrop ==
  (planning = "planned" /\ \A k \in 1..Len(chunk_paths) : chunk_paths[k] = k - 1) =>
    \A idx \in DOMAIN chunk_map : chunk_map[idx] = idx

\* segment 0 was dropped as too small and segment 1 kept: index 0 of the
\* plan, with the time range from 0, has the audio cut at chunk_seconds
C37_Shifted ==
  ~(/\ planning = "planned"
    /\ chunk_paths = <<1>>
    /\ chunk_specs[1].start_seconds = 0)

----------------------------------------------------------------------------
\* C36: the final transcript a run writes contains the text of every chunk
\* of the file that the store records as done, also when the run planned
\* fewer chunks than the store has registered.
C36_EveryDoneChunkInTranscript ==
  [][\A h \in Handles :
       (at[h] = "finalize" /\ at'[h] = "persist") =>
         \A c \in ChunksOf(DbOf(h), file_id[h]) :
           (c.status = "done" /\ dir[c.chunk_index] # NoFile
              /\ dir[c.chunk_index][1] # <<>>)
             => Contributes(c.chunk_index, output'[1])]_vars

\* C36 holds in the runs that plan every chunk of the store
C36_HoldsWithFullPlan ==
  [][\A h \in Handles :
       (at[h] = "finalize" /\ at'[h] = "persist"
          /\ Len(chunk_specs) = Cardinality(ChunksOf(DbOf(h), file_id[h]))) =>
         \A c \in ChunksOf(DbOf(h), file_id[h]) :
           (c.status = "done" /\ dir[c.chunk_index] # NoFile
              /\ dir[c.chunk_index][1] # <<>>)
             => Contributes(c.chunk_index, output'[1])]_vars

----------------------------------------------------------------------------
\* C38: shutdown_requested is monotone within a command: no step sets it
\* back to false once it is true, whoever set it, so should_stop() never
\* returns False after True; and the poll thread, once its loop test has
\* read the flag as true, starts no further poll and stays finished.
C38_FlagMonotone ==
  /\ [][shutdown_requested => shutdown_requested']_vars
  /\ [][ShouldStop => ShouldStop']_vars
  /\ [][(poller = "test" /\ shutdown_requested) => poller' # "fetch"]_vars
  /\ [][poller = "done" => poller' = "done"]_vars

\* the flag was set by the signal handler alone, and the poll thread has
\* read it and ended without a notice of its own
C38_Witness ==
  /\ shutdown_requested
  /\ signals > 0
  /\ poller = "done"
  /\ polled # "notice"
  /\ reason # "spot_imds"

----------------------------------------------------------------------------
\* C39: after shutdown_requested has become true the loop claims at most
\* one further chunk: a claim made with the flag set (late) is never
\* followed by another claim, a check before a claim that runs with the
\* flag set never reaches the claim, so a late claim follows only a check
\* that ran before the request, and the command then stops.
C39_AtMostOneFurtherClaim ==
  /\ [][(main = "claim" /\ main' = "claimed") => ~late]_vars
  /\ [][(main = "check" /\ ShouldStop) => main' # "claim"]_vars
  /\ [][(main = "claim" /\ main' = "claimed" /\ shutdown_requested)
          => (late' /\ todo' = todo - 1)]_vars
  /\ (shutdown_requested ~> main = "exited")

\* a chunk was claimed after the request, and the next check stopped the
\* file
C39_Witness ==
  /\ late
  /\ halted
  /\ result = "Shutdown requested before processing next chunk"

----------------------------------------------------------------------------
\* the errors with which a run stops on a shutdown request
ShutdownErrors ==
  StopErrors \cup {"Shutdown requested before chunk processing"}

\* the final-output fields that the File records of a database hold
FinalsOf(b) ==
  {<<f.file_id, f.final_output_uri, f.final_output_sha256>> :
     f \in {r \in b.files : r.final_output_uri # NULL}}

\* a step gives the final-output fields of a File record a value they did
\* not have: in a database that exists, or in one that the step creates.
\* (A reset unlinks the database file with all its records; the File record
\* of the new database starts with both fields NULL.)
FinalsChange ==
  \E g \in 1..Len(dbs') :
    FinalsOf(dbs'[g]) \ (IF g <= Len(dbs) THEN FinalsOf(dbs[g]) ELSE {}) # {}

\* the steps between the head of the loop and the finally clause
LoopSteps == {"claim", "got", "write", "mark", "finalize", "persist"}

\* C40: a run that stops on a shutdown request leaves the final transcript
\* file and the final-output fields of the File record as they were and
\* returns an error, never "success"; the file changes only in the step
\* after the loop that read the flag as false, the fields only in the
\* persist_final_output that follows it; and every way out of the loop
\* goes through the finally clause, which closes the store.
C40_StoppedRunLeavesFinalAlone ==
  /\ [][output' # output =>
          \E h \in Runners : /\ at[h] = "finalize" /\ at'[h] = "persist"
                             /\ ~ShouldStop
                             /\ result \notin ShutdownErrors]_vars
  /\ [][FinalsChange =>
          \E h \in Runners : /\ at[h] = "persist" /\ at'[h] = "finally"
                             /\ result' = "success"]_vars
  /\ [][\A h \in Runners :
          (at[h] = "persist" \/ at'[h] = "persist") =>
            result' \notin ShutdownErrors]_vars
  /\ [][(result \in ShutdownErrors) =>
          /\ output' = output
          /\ ~FinalsChange
          /\ result' \in (ShutdownErrors \cup {"-"})]_vars
  /\ [][\A h \in Runners :
          /\ at[h] \in LoopSteps => at'[h] \in LoopSteps \cup {"finally"}
          /\ (at[h] = "finally" /\ at'[h] # "finally") =>
               (at'[h] = "returned" /\ pc'[h] = "closed")]_vars

\* every chunk is done, the request came before the check after the loop:
\* the run has returned the error with the store closed and no final
\* transcript written or recorded
C40_Witness ==
  \E h \in Runners :
    /\ at[h] = "returned"
    /\ result = "Shutdown requested during chunk processing"
    /\ pc[h] = "closed"
    /\ output = NoFile
    /\ store = "valid"
    /\ FinalsOf(dbs[cur]) = {}
    /\ DoneIndices(dbs[cur], FileId(SourceUri)) = 0..(RunChunks - 1)

====
